---------------------------- MODULE Spec2Model ----------------------------
(***************************************************************************)
(* A model of the image-cropping editor (ImageEditor component): the       *)
(* viewport (zoom / pan), the selection rectangle (drag / resize / aspect  *)
(* lock) and the export mapping.                                           *)
(*                                                                         *)
(* JavaScript numbers are modelled as exact rationals <<n, d>> (d > 0, in  *)
(* lowest terms); values the code passes through Math.round are integers.  *)
(* Event handlers read the state of the render they were created in and    *)
(* their state updates are applied together, so one handler is one action. *)
(***************************************************************************)
EXTENDS Integers, Sequences, FiniteSets, TLC

-----------------------------------------------------------------------------
(* Exact rational arithmetic *)

Abs(i) == IF i < 0 THEN -i ELSE i

RECURSIVE GCD(_, _)
GCD(a, b) == IF b = 0 THEN a ELSE GCD(b, a % b)

\* the rational n/d in lowest terms with a positive denominator (d # 0)
Rat(n, d) ==
  LET g == GCD(Abs(n), Abs(d))
      s == IF d < 0 THEN -1 ELSE 1
  IN  <<(s * n) \div g, (s * d) \div g>>

I(n) == <<n, 1>>

RNeg(a) == <<-a[1], a[2]>>

RAdd(a, b) ==
  LET g == GCD(a[2], b[2])
  IN  Rat(a[1] * (b[2] \div g) + b[1] * (a[2] \div g), a[2] * (b[2] \div g))

RSub(a, b) == RAdd(a, RNeg(b))

RMul(a, b) ==
  LET g1 == GCD(Abs(a[1]), b[2])
      g2 == GCD(Abs(b[1]), a[2])
  IN  Rat((a[1] \div g1) * (b[1] \div g2), (a[2] \div g2) * (b[2] \div g1))

\* 1/b, for b # 0
RInv(b) == IF b[1] > 0 THEN <<b[2], b[1]>> ELSE <<-b[2], -b[1]>>

RDiv(a, b) == RMul(a, RInv(b))

RLt(a, b) ==
  LET g == GCD(a[2], b[2])
  IN  a[1] * (b[2] \div g) < b[1] * (a[2] \div g)

RLe(a, b) == ~RLt(b, a)

RMin(a, b) == IF RLt(b, a) THEN b ELSE a

RMax(a, b) == IF RLt(a, b) THEN b ELSE a

RAbs(a) == <<Abs(a[1]), a[2]>>

\* Math.round: the nearest integer, halves rounded towards +infinity
RRound(a) == (2 * a[1] + a[2]) \div (2 * a[2])

Min(a, b) == IF a < b THEN a ELSE b

Max(a, b) == IF a > b THEN a ELSE b

-----------------------------------------------------------------------------
(* Constants of the component *)

AspectNames == {"1:1", "1:2", "2:3", "3:4", "4:5", "16:9", "3:2", "4:3"}

ASPECT_RATIOS ==
  [a \in AspectNames |->
     CASE a = "1:1"  -> <<1, 1>>
       [] a = "1:2"  -> <<1, 2>>
       [] a = "2:3"  -> <<2, 3>>
       [] a = "3:4"  -> <<3, 4>>
       [] a = "4:5"  -> <<4, 5>>
       [] a = "16:9" -> <<16, 9>>
       [] a = "3:2"  -> <<3, 2>>
       [] a = "4:3"  -> <<4, 3>>]

DEFAULT_ASPECT == "1:1"

MIN_SIZE == 10

\* 1.05
ZOOM_SCALE == <<21, 20>>

\* 0.2
MIN_ZOOM == <<1, 5>>

MAX_ZOOM == <<3, 1>>

DEFAULT_SELECTION_WIDTH == 400

PADDING == 40

-----------------------------------------------------------------------------
(* Inputs and bounds *)

\* image files the user can choose, with the size their decoded image has
Files == {"A", "B"}

naturalWidth == [f \in Files |-> IF f = "A" THEN 1600 ELSE 400]

naturalHeight == [f \in Files |-> IF f = "A" THEN 1200 ELSE 800]

\* imgElement / lastFile before any file was chosen
NoImg == "null"

\* panLast.current when no pan is in progress
NoPos == <<>>

\* image decodes that may be pending at once
MaxPending == 2

\* wheel events in one run (each multiplies the scale by 1.05 or 1/1.05)
MaxWheel == 2

\* zoom and pan-move events in one behaviour of the viewport machine
MaxViewSteps == 4

\* handler runs in one behaviour of the selection machine
MaxSelSteps == 4

\* events in a behaviour of the whole component
MaxSteps == 3

\* zoom inputs in one behaviour of the zoom machine
MaxZoomSteps == 3

\* exports whose toBlob callback is pending at one time
MaxUploads == 1

\* edits between an export and its toBlob callback
MaxEdits == 2

\* upload requests in one behaviour
MaxFetches == 2

-----------------------------------------------------------------------------
(* State *)

VARIABLES
  imgElement,       \* the decoded image shown (a file), or NoImg
  lastFile,         \* the file chosen last, or NoImg
  loading,          \* pending img.onload callbacks, each with the aspect and
                    \* stage size of the render that created it
  selection,        \* [x, y, width, height], integers
  keepRatio,        \* aspect lock
  aspect,           \* name of the active aspect ratio
  imageScale,       \* rational
  imageOffset,      \* [x, y], rationals
  isPanning,
  panLast,          \* panLast.current: <<x, y>> or NoPos
  stageDimensions,  \* [width, height], integers
  rectNode,         \* the selection's Konva node: [x, y, width, height, scaleX, scaleY]
  exported,         \* what the last exportCropped call computed (made: whether one ran)
  last,             \* the handler that ran last, with its inputs
  wheels,           \* wheel events so far
  steps,            \* handlers run so far
  dpiInfo,          \* the DPI shown: a parser outcome (Unknown at first)
  parses,           \* files whose f.arrayBuffer().then(...) has not run yet
  uploads,          \* exports whose toBlob callback has not run yet
  uploaded,         \* the metadata the last toBlob callback put in its form data
  fetches,          \* requests to /api/upload issued so far
  inflight,         \* requests whose fetch has not settled yet
  alerts,           \* messages shown after uploads so far
  message,          \* the message shown last
  dv,               \* the buffer handed to the DPI parsers
  dvParams,         \* what the buffer was made from
  parsed,           \* the parser that ran on dv and its outcome
  request,          \* the POST /api/upload the worker is handling
  pc,               \* where the worker's handler is
  stored,           \* the handler's object-store write succeeded
  inserted,         \* the handler's database insert succeeded
  response          \* what the handler answered

fileVars == <<imgElement, lastFile, loading, dpiInfo, parses>>
exportVars == <<exported, uploads, uploaded, fetches, inflight, alerts, message>>
parserVars == <<dv, dvParams, parsed>>
workerVars == <<request, pc, stored, inserted, response>>
selVars  == <<selection, keepRatio, aspect, rectNode>>
viewVars == <<imageScale, imageOffset, isPanning, panLast>>
vars == <<imgElement, lastFile, loading, selection, keepRatio, aspect, imageScale,
          imageOffset, isPanning, panLast, stageDimensions, rectNode, exported,
          last, wheels, steps, dpiInfo, parses, uploads, uploaded, fetches, inflight,
          alerts, message, dv, dvParams, parsed, request, pc, stored, inserted,
          response>>

stageWidth == stageDimensions.width

stageHeight == stageDimensions.height

-----------------------------------------------------------------------------
(* Selection model *)

\* initialSelection with the default width whatever the stage width
initialSelection_defaultWidth(sw, sh, asp) ==
  LET selectionWidth  == DEFAULT_SELECTION_WIDTH
      aspectRatio     == ASPECT_RATIOS[asp]
      selectionHeight == RRound(RDiv(I(selectionWidth), aspectRatio))
  IN  [x      |-> RRound(Rat(sw - selectionWidth, 2)),
       y      |-> RRound(Rat(sh - selectionHeight, 2)),
       width  |-> selectionWidth,
       height |-> selectionHeight]

\* the rectangle img.onload and Reset install, for the stage size and aspect
\* of the render the handler belongs to
initialSelection(sw, sh, asp) ==
  LET selectionWidth  == Min(DEFAULT_SELECTION_WIDTH, sw - PADDING)
      aspectRatio     == ASPECT_RATIOS[asp]
      selectionHeight == RRound(RDiv(I(selectionWidth), aspectRatio))
  IN  [x      |-> RRound(Rat(sw - selectionWidth, 2)),
       y      |-> RRound(Rat(sh - selectionHeight, 2)),
       width  |-> selectionWidth,
       height |-> selectionHeight]

\* clampSelection without the right and bottom edges
clampSelection_nearEdgesOnly(sel) ==
  [x |-> IF sel.x < 0 THEN 0 ELSE sel.x,
   y |-> IF sel.y < 0 THEN 0 ELSE sel.y,
   width |-> sel.width, height |-> sel.height]

\* clampSelection that shrinks a rectangle reaching over the far edges instead of
\* moving it
clampSelection_shrinksToFit(sel) ==
  LET x1 == IF sel.x < 0 THEN 0 ELSE sel.x
      y1 == IF sel.y < 0 THEN 0 ELSE sel.y
  IN  [x |-> x1, y |-> y1,
       width  |-> IF x1 + sel.width > stageWidth THEN stageWidth - x1 ELSE sel.width,
       height |-> IF y1 + sel.height > stageHeight THEN stageHeight - y1
                  ELSE sel.height]

clampSelection(sel) ==
  LET x1 == IF sel.x < 0 THEN 0 ELSE sel.x
      y1 == IF sel.y < 0 THEN 0 ELSE sel.y
      x2 == IF x1 + sel.width > stageWidth THEN stageWidth - sel.width ELSE x1
      y2 == IF y1 + sel.height > stageHeight THEN stageHeight - sel.height ELSE y1
  IN  [x |-> x2, y |-> y2, width |-> sel.width, height |-> sel.height]

\* the effect that copies a new selection into the Konva node (scale is not touched)
syncRect(node, sel) ==
  [node EXCEPT !.x = sel.x, !.y = sel.y, !.width = sel.width, !.height = sel.height]

\* the box the Transformer sees for the node: x, y integers, width and height rationals
nodeBox(node) ==
  [x      |-> node.x,
   y      |-> node.y,
   width  |-> RMul(I(node.width), node.scaleX),
   height |-> RMul(I(node.height), node.scaleY)]

\* boundBoxFunc with the recomputed height multiplied by the ratio instead of divided
boundBoxFunc_heightTimesRatio(oldBox, newBox) ==
  IF RLt(RAbs(newBox.width), I(MIN_SIZE)) \/ RLt(RAbs(newBox.height), I(MIN_SIZE))
  THEN oldBox
  ELSE IF keepRatio
       THEN LET ar           == ASPECT_RATIOS[aspect]
                widthChange  == RAbs(RSub(newBox.width, oldBox.width))
                heightChange == RAbs(RSub(newBox.height, oldBox.height))
            IN  IF RLt(heightChange, widthChange)
                THEN LET newHeight == RMul(RAbs(newBox.width), ar)
                     IN  [newBox EXCEPT !.height =
                            IF RLt(newBox.height, I(0)) THEN RNeg(newHeight) ELSE newHeight]
                ELSE LET newWidth == RMul(RAbs(newBox.height), ar)
                     IN  [newBox EXCEPT !.width =
                            IF RLt(newBox.width, I(0)) THEN RNeg(newWidth) ELSE newWidth]
       ELSE newBox

\* boundBoxFunc with the axis of the smaller change driving
boundBoxFunc_smallerDrives(oldBox, newBox) ==
  IF RLt(RAbs(newBox.width), I(MIN_SIZE)) \/ RLt(RAbs(newBox.height), I(MIN_SIZE))
  THEN oldBox
  ELSE IF keepRatio
       THEN LET ar           == ASPECT_RATIOS[aspect]
                widthChange  == RAbs(RSub(newBox.width, oldBox.width))
                heightChange == RAbs(RSub(newBox.height, oldBox.height))
            IN  IF RLt(widthChange, heightChange)
                THEN LET newHeight == RDiv(RAbs(newBox.width), ar)
                     IN  [newBox EXCEPT !.height =
                            IF RLt(newBox.height, I(0)) THEN RNeg(newHeight) ELSE newHeight]
                ELSE LET newWidth == RMul(RAbs(newBox.height), ar)
                     IN  [newBox EXCEPT !.width =
                            IF RLt(newBox.width, I(0)) THEN RNeg(newWidth) ELSE newWidth]
       ELSE newBox

\* boundBoxFunc that accepts every proposed box
boundBoxFunc_acceptsAll(oldBox, newBox) == newBox

boundBoxFunc(oldBox, newBox) ==
  IF RLt(RAbs(newBox.width), I(MIN_SIZE)) \/ RLt(RAbs(newBox.height), I(MIN_SIZE))
  THEN oldBox
  ELSE IF keepRatio
       THEN LET ar           == ASPECT_RATIOS[aspect]
                widthChange  == RAbs(RSub(newBox.width, oldBox.width))
                heightChange == RAbs(RSub(newBox.height, oldBox.height))
            IN  IF RLt(heightChange, widthChange)
                THEN LET newHeight == RDiv(RAbs(newBox.width), ar)
                     IN  [newBox EXCEPT !.height =
                            IF RLt(newBox.height, I(0)) THEN RNeg(newHeight) ELSE newHeight]
                ELSE LET newWidth == RMul(RAbs(newBox.height), ar)
                     IN  [newBox EXCEPT !.width =
                            IF RLt(newBox.width, I(0)) THEN RNeg(newWidth) ELSE newWidth]
       ELSE newBox

\* Konva fits the node into the box boundBoxFunc returned: position from the box,
\* size as a scale factor of the node's own width and height
fitNodeInto(node, box) ==
  [node EXCEPT !.x = box.x, !.y = box.y,
               !.scaleX = RDiv(box.width, I(node.width)),
               !.scaleY = RDiv(box.height, I(node.height))]

\* a move of a resize anchor: the Transformer proposes newBox
Transform(newBox) ==
  /\ rectNode.width # 0 /\ rectNode.height # 0
  /\ LET oldBox == nodeBox(rectNode)
         box    == boundBoxFunc(oldBox, newBox)
     IN  /\ rectNode' = fitNodeInto(rectNode, box)
         /\ last' = [op |-> "Transform", oldBox |-> oldBox, newBox |-> newBox, box |-> box]
  /\ UNCHANGED <<fileVars, selection, keepRatio, aspect, viewVars, stageDimensions,
                 exportVars, wheels>>

\* handleRectTransformEnd without node.scaleX(1) and node.scaleY(1)
handleRectTransformEnd_keepsScale ==
  LET scaleX == rectNode.scaleX
      scaleY == rectNode.scaleY
      sel    == [x      |-> rectNode.x,
                 y      |-> rectNode.y,
                 width  |-> RRound(RMul(I(rectNode.width), scaleX)),
                 height |-> RRound(RMul(I(rectNode.height), scaleY))]
  IN  /\ selection' = sel
      /\ rectNode' = syncRect(rectNode, sel)
      /\ last' = [op |-> "TransformEnd", scaleX |-> scaleX, scaleY |-> scaleY,
                  before |-> selection]
      /\ UNCHANGED <<fileVars, keepRatio, aspect, viewVars, stageDimensions,
                     exportVars, wheels>>

handleRectTransformEnd ==
  LET scaleX == rectNode.scaleX
      scaleY == rectNode.scaleY
      sel    == [x      |-> rectNode.x,
                 y      |-> rectNode.y,
                 width  |-> RRound(RMul(I(rectNode.width), scaleX)),
                 height |-> RRound(RMul(I(rectNode.height), scaleY))]
  IN  /\ selection' = sel
      /\ rectNode' = syncRect([rectNode EXCEPT !.scaleX = I(1), !.scaleY = I(1)], sel)
      /\ last' = [op |-> "TransformEnd", scaleX |-> scaleX, scaleY |-> scaleY,
                  before |-> selection]
      /\ UNCHANGED <<fileVars, keepRatio, aspect, viewVars, stageDimensions,
                     exportVars, wheels>>

\* the rectangle was dragged to (x, y)
RectDragEnd(x, y) ==
  LET sel == clampSelection([x |-> x, y |-> y, width |-> selection.width,
                             height |-> selection.height])
  IN  /\ selection' = sel
      /\ rectNode' = syncRect(rectNode, sel)
      /\ last' = [op |-> "DragEnd", x |-> x, y |-> y, before |-> selection]
      /\ UNCHANGED <<fileVars, keepRatio, aspect, viewVars, stageDimensions,
                     exportVars, wheels>>

\* the aspect <select>
AspectChange(nextAspect) ==
  LET ar      == ASPECT_RATIOS[nextAspect]
      centerX == RAdd(I(selection.x), Rat(selection.width, 2))
      centerY == RAdd(I(selection.y), Rat(selection.height, 2))
      w0      == selection.width
      h0      == RRound(RDiv(I(w0), ar))
      tall    == h0 > stageHeight
      h1      == IF tall THEN stageHeight - PADDING ELSE h0
      w1      == IF tall THEN RRound(RMul(I(h1), ar)) ELSE w0
      wide    == w1 > stageWidth
      newWidth  == IF wide THEN stageWidth - PADDING ELSE w1
      newHeight == IF wide THEN RRound(RDiv(I(newWidth), ar)) ELSE h1
      nx == Max(0, Min(stageWidth - newWidth,
                       RRound(RSub(centerX, Rat(newWidth, 2)))))
      ny == Max(0, Min(stageHeight - newHeight,
                       RRound(RSub(centerY, Rat(newHeight, 2)))))
      sel == [x |-> nx, y |-> ny, width |-> newWidth, height |-> newHeight]
  IN  /\ aspect' = nextAspect
      /\ selection' = sel
      /\ rectNode' = syncRect(rectNode, sel)
      /\ last' = [op |-> "AspectChange", aspect |-> nextAspect]
      /\ UNCHANGED <<fileVars, keepRatio, viewVars, stageDimensions, exportVars, wheels>>

\* the keep-aspect-ratio checkbox
ToggleKeepRatio ==
  /\ keepRatio' = ~keepRatio
  /\ last' = [op |-> "ToggleKeepRatio"]
  /\ UNCHANGED <<fileVars, selection, aspect, rectNode, viewVars, stageDimensions,
                 exportVars, wheels>>

\* the container was measured at width x height
measure(width, height) ==
  /\ stageDimensions' = [width |-> width, height |-> height]
  /\ last' = [op |-> "measure"]
  /\ UNCHANGED <<fileVars, selVars, viewVars, exportVars, wheels>>

-----------------------------------------------------------------------------
(* Viewport model: geometry of the current render *)

baseDisplayWidth == stageWidth

displayedImageWidth == RMul(I(baseDisplayWidth), imageScale)

displayedImageHeight ==
  IF imgElement # NoImg
  THEN RDiv(RMul(I(naturalHeight[imgElement]), displayedImageWidth),
            I(naturalWidth[imgElement]))
  ELSE I(stageHeight)

baseX == RDiv(RSub(I(stageWidth), displayedImageWidth), I(2))

baseY == RDiv(RSub(I(stageHeight), displayedImageHeight), I(2))

imageX == RAdd(baseX, imageOffset.x)

imageY == RAdd(baseY, imageOffset.y)

clampOffset(off) ==
  IF imgElement = NoImg
  THEN off
  ELSE LET narrow == RLt(displayedImageWidth, I(stageWidth))
           short  == RLt(displayedImageHeight, I(stageHeight))
           centreX == RSub(RDiv(RSub(I(stageWidth), displayedImageWidth), I(2)), baseX)
           centreY == RSub(RDiv(RSub(I(stageHeight), displayedImageHeight), I(2)), baseY)
           minX == IF narrow THEN centreX ELSE RSub(I(stageWidth), displayedImageWidth)
           maxX == IF narrow THEN centreX ELSE I(0)
           minY == IF short THEN centreY ELSE RSub(I(stageHeight), displayedImageHeight)
           maxY == IF short THEN centreY ELSE I(0)
       IN  [x |-> RMax(minX, RMin(maxX, off.x)),
            y |-> RMax(minY, RMin(maxY, off.y))]

handleStageMouseDown(pos) ==
  /\ isPanning' = TRUE
  /\ panLast' = pos
  /\ last' = [op |-> "MouseDown"]
  /\ UNCHANGED <<fileVars, selVars, imageScale, imageOffset, stageDimensions,
                 exportVars, wheels>>

handleStageMouseMove(pos) ==
  /\ isPanning
  /\ panLast # NoPos
  /\ LET dx == pos[1] - panLast[1]
         dy == pos[2] - panLast[2]
     IN  imageOffset' = clampOffset([x |-> RAdd(imageOffset.x, I(dx)),
                                     y |-> RAdd(imageOffset.y, I(dy))])
  /\ panLast' = pos
  /\ last' = [op |-> "MouseMove", from |-> panLast, to |-> pos]
  /\ UNCHANGED <<fileVars, selVars, imageScale, isPanning, stageDimensions,
                 exportVars, wheels>>

handleStageMouseUp ==
  /\ isPanning' = FALSE
  /\ panLast' = NoPos
  /\ last' = [op |-> "MouseUp"]
  /\ UNCHANGED <<fileVars, selVars, imageScale, imageOffset, stageDimensions,
                 exportVars, wheels>>

\* the offset the zoom handlers compute for the point (px, py) and the new scale v,
\* before it is clamped
zoomOffset(px, py, v) ==
  LET oldScale == imageScale
      imagePointBeforeX == RDiv(RSub(RSub(px, baseX), imageOffset.x), oldScale)
      imagePointBeforeY == RDiv(RSub(RSub(py, baseY), imageOffset.y), oldScale)
  IN  [x |-> RSub(RSub(px, baseX), RMul(imagePointBeforeX, v)),
       y |-> RSub(RSub(py, baseY), RMul(imagePointBeforeY, v))]

\* the part the wheel, range and number handlers share: zoom to scale v about (px, py)
zoomAt(px, py, v) ==
  /\ imageScale' = v
  /\ imageOffset' = clampOffset(zoomOffset(px, py, v))
  /\ last' = [op |-> "zoomAt", px |-> px, py |-> py, s |-> v]

handleWheel(pointer, deltaYPositive) ==
  /\ imgElement # NoImg
  /\ wheels < MaxWheel
  /\ LET oldScale == imageScale
         newScale == IF deltaYPositive THEN RDiv(oldScale, ZOOM_SCALE)
                                       ELSE RMul(oldScale, ZOOM_SCALE)
         clamped  == RMax(MIN_ZOOM, RMin(MAX_ZOOM, newScale))
     IN  zoomAt(I(pointer[1]), I(pointer[2]), clamped)
  /\ wheels' = wheels + 1
  /\ UNCHANGED <<fileVars, selVars, isPanning, panLast, stageDimensions, exportVars>>

\* the range input: its value v is a number between min and max
zoomRangeChange(v) ==
  /\ zoomAt(Rat(stageWidth, 2), Rat(stageHeight, 2), v)
  /\ UNCHANGED <<fileVars, selVars, isPanning, panLast, stageDimensions, exportVars, wheels>>

\* zoomNumberChange that takes a numeric entry as the scale without clamping it
zoomNumberChange_unclamped(entry) ==
  /\ LET v == CASE entry.kind = "NaN"       -> I(1)
                [] entry.kind = "Infinity"  -> MAX_ZOOM
                [] entry.kind = "-Infinity" -> MIN_ZOOM
                [] OTHER                    -> entry.val
     IN  zoomAt(Rat(stageWidth, 2), Rat(stageHeight, 2), v)
  /\ UNCHANGED <<fileVars, selVars, isPanning, panLast, stageDimensions, exportVars, wheels>>

\* Number(e.target.value) of the number input: [kind |-> "num", val |-> a rational],
\* or NaN or an infinity
zoomNumberChange(entry) ==
  /\ LET v == CASE entry.kind = "NaN"       -> RMax(MIN_ZOOM, RMin(MAX_ZOOM, I(1)))
                [] entry.kind = "Infinity"  -> MAX_ZOOM
                [] entry.kind = "-Infinity" -> MIN_ZOOM
                [] OTHER                    -> RMax(MIN_ZOOM, RMin(MAX_ZOOM, entry.val))
     IN  zoomAt(Rat(stageWidth, 2), Rat(stageHeight, 2), v)
  /\ UNCHANGED <<fileVars, selVars, isPanning, panLast, stageDimensions, exportVars, wheels>>

-----------------------------------------------------------------------------
(* Files, Reset, export *)

handleFileObject(f) ==
  /\ Cardinality(loading) < MaxPending
  /\ lastFile' = f
  /\ loading' = loading \cup {[file |-> f, aspect |-> aspect,
                               stageWidth |-> stageWidth, stageHeight |-> stageHeight]}
  /\ parses' = parses \cup {f}
  /\ last' = [op |-> "handleFileObject", file |-> f]
  /\ UNCHANGED <<imgElement, dpiInfo, selVars, viewVars, stageDimensions, exportVars, wheels>>

\* img.onload of a pending load
imgOnload(l) ==
  /\ l \in loading
  /\ loading' = loading \ {l}
  /\ imgElement' = l.file
  /\ imageScale' = I(1)
  /\ imageOffset' = [x |-> I(0), y |-> I(0)]
  /\ LET sel == initialSelection(l.stageWidth, l.stageHeight, l.aspect)
     IN  /\ selection' = sel
         /\ rectNode' = syncRect(rectNode, sel)
  /\ last' = [op |-> "onload", load |-> l]
  /\ UNCHANGED <<lastFile, dpiInfo, parses, keepRatio, aspect, isPanning, panLast,
                 stageDimensions,
                 exportVars, wheels>>

Reset ==
  /\ imageScale' = I(1)
  /\ imageOffset' = [x |-> I(0), y |-> I(0)]
  /\ LET sel == initialSelection(stageWidth, stageHeight, aspect)
     IN  /\ selection' = sel
         /\ rectNode' = syncRect(rectNode, sel)
  /\ last' = [op |-> "Reset"]
  /\ UNCHANGED <<fileVars, keepRatio, aspect, isPanning, panLast, stageDimensions,
                 exportVars, wheels>>

\* cropOf with the source rectangle's origin clamped into the image
cropOf_clampedOrigin(sel) ==
  LET scaleNat == RDiv(I(naturalWidth[imgElement]), displayedImageWidth)
  IN  [made           |-> TRUE,
       canvasWidth    |-> sel.width,
       canvasHeight   |-> sel.height,
       originalWidth  |-> naturalWidth[imgElement],
       originalHeight |-> naturalHeight[imgElement],
       cropX          |-> Max(0, RRound(RMul(RSub(I(sel.x), imageX), scaleNat))),
       cropY          |-> Max(0, RRound(RMul(RSub(I(sel.y), imageY), scaleNat))),
       cropWidth      |-> RRound(RMul(I(sel.width), scaleNat)),
       cropHeight     |-> RRound(RMul(I(sel.height), scaleNat))]

\* what exportCropped computes before it hands the canvas to toBlob
cropOf(sel) ==
  LET sxOnDisplay == RSub(I(sel.x), imageX)
      syOnDisplay == RSub(I(sel.y), imageY)
      scaleNat    == RDiv(I(naturalWidth[imgElement]), displayedImageWidth)
      sx          == RMul(sxOnDisplay, scaleNat)
      sy          == RMul(syOnDisplay, scaleNat)
      sWidth      == RMul(I(sel.width), scaleNat)
      sHeight     == RMul(I(sel.height), scaleNat)
  IN  [made           |-> TRUE,
       canvasWidth    |-> sel.width,
       canvasHeight   |-> sel.height,
       originalWidth  |-> naturalWidth[imgElement],
       originalHeight |-> naturalHeight[imgElement],
       cropX          |-> RRound(sx),
       cropY          |-> RRound(sy),
       cropWidth      |-> RRound(sWidth),
       cropHeight     |-> RRound(sHeight)]

\* the state an export was invoked in
snapshot ==
  [selection |-> selection, imageScale |-> imageScale, imageOffset |-> imageOffset,
   imgElement |-> imgElement, stageDimensions |-> stageDimensions]

\* exportCropped up to its call of toBlob.  Without an image, or without a 2D
\* context (ctx), it returns at once.  Otherwise the canvas is drawn and sx, sy,
\* sWidth, sHeight and imgElement stay in the closure of the callback (meta); at
\* records the state of the call
exportCropped ==
  \E ctx \in BOOLEAN :
    \/ /\ imgElement = NoImg \/ ~ctx
       /\ last' = [op |-> "exportCropped", drawn |-> FALSE]
       /\ UNCHANGED <<fileVars, selVars, viewVars, stageDimensions, wheels, exportVars>>
    \/ /\ imgElement # NoImg /\ ctx
       /\ Cardinality(uploads) < MaxUploads
       /\ fetches + Cardinality(uploads) < MaxFetches
       /\ exported' = cropOf(selection)
       /\ uploads' = uploads \cup {[meta |-> cropOf(selection), at |-> snapshot]}
       /\ last' = [op |-> "exportCropped", drawn |-> TRUE]
       /\ UNCHANGED <<fileVars, selVars, viewVars, stageDimensions, wheels, uploaded,
                      fetches, inflight, alerts, message>>

\* blobMetadata read from the state at the time the callback runs
blobMetadata_live(u) == cropOf(selection)

\* the metadata the toBlob callback appends for pending export u
blobMetadata(u) == u.meta

\* the toBlob callback of a pending export (with a blob): builds the form data and
\* posts it
toBlobCallback(u) ==
  /\ u \in uploads
  /\ uploads' = uploads \ {u}
  /\ uploaded' = blobMetadata(u)
  /\ fetches' = fetches + 1
  /\ inflight' = inflight + 1
  /\ last' = [op |-> "toBlob", upload |-> u]
  /\ UNCHANGED <<fileVars, selVars, viewVars, stageDimensions, wheels, exported,
                 alerts, message>>

\* what a request to /api/upload can come to: a success body, an error body, a
\* rejected fetch, or a body that is not JSON
FetchOutcomes == {"success", "error", "rejected", "notJSON"}

\* the alert an outcome ends in
alertFor(outcome) ==
  CASE outcome = "success" -> [kind |-> "uploaded"]
    [] outcome = "error"   -> [kind |-> "failed", text |-> "Upload failed: error"]
    [] OTHER               -> [kind |-> "failed",
                               text |-> "Upload failed. Check console for details."]

\* fetchSettled that posts the form data again after a failure
fetchSettled_retries(outcome) ==
  /\ inflight > 0
  /\ IF outcome = "success"
     THEN inflight' = inflight - 1 /\ fetches' = fetches
     ELSE inflight' = inflight /\ fetches' = fetches + 1
  /\ alerts' = alerts + 1
  /\ message' = alertFor(outcome)
  /\ last' = [op |-> "fetchSettled", outcome |-> outcome]
  /\ UNCHANGED <<fileVars, selVars, viewVars, stageDimensions, wheels, exported,
                 uploads, uploaded>>

\* the rest of the toBlob callback: the fetch of a posted form settles and the
\* outcome is shown
fetchSettled(outcome) ==
  /\ inflight > 0
  /\ inflight' = inflight - 1
  /\ alerts' = alerts + 1
  /\ message' = alertFor(outcome)
  /\ last' = [op |-> "fetchSettled", outcome |-> outcome]
  /\ UNCHANGED <<fileVars, selVars, viewVars, stageDimensions, wheels, exported,
                 uploads, uploaded, fetches>>

-----------------------------------------------------------------------------
(* DPI parsers.  A DataView is a sequence of bytes (dv.byteLength = Len);  *)
(* a read outside the buffer throws a RangeError.  A parser's outcome is a *)
(* record: its return value, or kind "throw" when an exception leaves it.  *)

\* return value null
NoMetadata == [kind |-> "null"]

\* return value "unknown"
Unknown == [kind |-> "unknown"]

\* return value `${x} × ${y} DPI`
Dpi(x, y) == [kind |-> "dpi", x |-> x, y |-> y]

\* an exception leaves the function
Thrown == [kind |-> "throw"]

\* the n bytes from offset o lie in the buffer
Readable(b, o, n) == o >= 0 /\ o + n <= Len(b)

getUint8(b, o) == b[o + 1]

getUint16(b, o, little) ==
  IF little THEN b[o + 1] + 256 * b[o + 2]
            ELSE 256 * b[o + 1] + b[o + 2]

\* getUint32 that ignores the littleEndian argument
getUint32_bigEndian(b, o, little) ==
  b[o + 4] + 256 * (b[o + 3] + 256 * (b[o + 2] + 256 * b[o + 1]))

getUint32(b, o, little) ==
  IF little THEN b[o + 1] + 256 * (b[o + 2] + 256 * (b[o + 3] + 256 * b[o + 4]))
            ELSE b[o + 4] + 256 * (b[o + 3] + 256 * (b[o + 2] + 256 * b[o + 1]))

\* "\x89PNG\r\n\x1a\n"
PNGSignature == <<137, 80, 78, 71, 13, 10, 26, 10>>

\* "pHYs"
pHYs == <<112, 72, 89, 115>>

\* "Exif\0\0"
ExifHeader == <<69, 120, 105, 102, 0, 0>>

\* 0.0245 in place of 0.0254
MetersPerInch_transposed == <<49, 2000>>

\* 0.0254 and 2.54
MetersPerInch == <<127, 5000>>

CentimetersPerInch == <<127, 50>>

\* Chunk lengths up to 2^32 - 1 and the offsets they lead to, as <<h, l>> standing
\* for h * 2^24 + l with 0 <= l < 2^24 (a JavaScript number holds them exactly)
Wide(n) == <<n \div 16777216, n % 16777216>>

WAdd(a, c) ==
  LET l == a[2] + c[2]
  IN  <<a[1] + c[1] + l \div 16777216, l % 16777216>>

WLt(a, c) == a[1] < c[1] \/ (a[1] = c[1] /\ a[2] < c[2])

\* dv.getUint32(o), big-endian, as a wide number
getUint32Wide(b, o) == <<b[o + 1], 65536 * b[o + 2] + 256 * b[o + 3] + b[o + 4]>>

\* offset += 8 + length + 4 in 32-bit unsigned arithmetic
pngAdvance_wraps32(offset, length) ==
  LET sum == WAdd(WAdd(offset, Wide(12)), length)
  IN  <<sum[1] % 256, sum[2]>>

\* offset += 8 + length + 4
pngAdvance(offset, length) == WAdd(WAdd(offset, Wide(8)), WAdd(length, Wide(4)))

\* what parsePNG_DPI makes of a pHYs chunk of length >= 9 at chunk offset `offset`
physChunk(b, offset) ==
  IF ~Readable(b, offset + 8, 9)
  THEN Thrown
  ELSE LET pxPerUnitX == getUint32(b, offset + 8, FALSE)
           pxPerUnitY == getUint32(b, offset + 12, FALSE)
           unit       == getUint8(b, offset + 16)
       IN  IF unit = 1 /\ pxPerUnitX # 0 /\ pxPerUnitY # 0
           THEN Dpi(RRound(RMul(I(pxPerUnitX), MetersPerInch)),
                    RRound(RMul(I(pxPerUnitY), MetersPerInch)))
           ELSE Unknown

\* the while loop of parsePNG_DPI, from chunk offset `offset`
RECURSIVE pngChunks(_, _)
pngChunks(b, offset) ==
  IF ~(offset + 8 < Len(b))
  THEN NoMetadata
  ELSE LET length == getUint32(b, offset, FALSE)
           type   == SubSeq(b, offset + 5, offset + 8)
       IN  IF type = pHYs /\ length >= 9
           THEN physChunk(b, offset)
           ELSE pngChunks(b, offset + 8 + length + 4)

parsePNG_DPI(b) ==
  IF Len(b) < 24
  THEN NoMetadata
  ELSE IF SubSeq(b, 1, 8) # PNGSignature
       THEN NoMetadata
       ELSE pngChunks(b, 8)

\* the for loop over the IFD0 entries, from entry i; acc holds xRes, yRes (0 stands
\* for null as well: only their truthiness is used), resUnit and whether a read threw
RECURSIVE ifdEntries(_, _, _, _, _, _, _)
ifdEntries(b, tiffOffset, little, ifd0Offset, i, entries, acc) ==
  IF i >= entries
  THEN acc
  ELSE LET entryOffset == ifd0Offset + 2 + i * 12
           valueOffset == entryOffset + 8
           failed      == [acc EXCEPT !.thrown = TRUE]
       IN  IF ~Readable(b, entryOffset, 2)
           THEN failed
           ELSE LET tag == getUint16(b, entryOffset, little)
                IN  IF tag = 282 \/ tag = 283
                    THEN IF ~Readable(b, valueOffset, 4)
                         THEN failed
                         ELSE LET valPtr == tiffOffset + getUint32(b, valueOffset, little)
                              IN  IF ~Readable(b, valPtr, 8)
                                  THEN failed
                                  ELSE LET num == getUint32(b, valPtr, little)
                                           den == getUint32(b, valPtr + 4, little)
                                           val == IF den # 0 THEN Rat(num, den) ELSE I(0)
                                       IN  ifdEntries(b, tiffOffset, little, ifd0Offset,
                                                      i + 1, entries,
                                                      IF tag = 282
                                                      THEN [acc EXCEPT !.xRes = val]
                                                      ELSE [acc EXCEPT !.yRes = val])
                    ELSE IF tag = 296
                         THEN IF ~Readable(b, valueOffset, 2)
                              THEN failed
                              ELSE LET v == getUint16(b, valueOffset, little)
                                   IN  ifdEntries(b, tiffOffset, little, ifd0Offset,
                                                  i + 1, entries,
                                                  IF v # 0 THEN [acc EXCEPT !.resUnit = v]
                                                           ELSE acc)
                         ELSE ifdEntries(b, tiffOffset, little, ifd0Offset, i + 1,
                                         entries, acc)

\* the try block of parseJPEG_EXIF_DPI for the Exif segment whose data starts at
\* exifStart: a DPI value, Thrown when a read inside it throws, NoMetadata when it
\* ends without returning
exifBlock(b, exifStart) ==
  LET tiffOffset == exifStart + 6
  IN  IF ~Readable(b, tiffOffset, 8)
      THEN Thrown
      ELSE LET little     == getUint16(b, tiffOffset, FALSE) = 18761
               ifd0Offset == tiffOffset + getUint32(b, tiffOffset + 4, little)
           IN  IF ~Readable(b, ifd0Offset, 2)
               THEN Thrown
               ELSE LET entries == getUint16(b, ifd0Offset, little)
                        acc     == ifdEntries(b, tiffOffset, little, ifd0Offset, 0, entries,
                                              [xRes |-> I(0), yRes |-> I(0), resUnit |-> 2,
                                               thrown |-> FALSE])
                    IN  IF acc.thrown
                        THEN Thrown
                        ELSE IF acc.xRes # I(0) /\ acc.yRes # I(0)
                             THEN IF acc.resUnit = 3
                                  THEN Dpi(RRound(RMul(acc.xRes, CentimetersPerInch)),
                                           RRound(RMul(acc.yRes, CentimetersPerInch)))
                                  ELSE Dpi(RRound(acc.xRes), RRound(acc.yRes))
                             ELSE NoMetadata

\* one pass of the body of the while loop of parseJPEG_EXIF_DPI at marker position
\* pos (pos + 4 < byteLength): the loop is left with a value (left), or goes on
jpegSegment(b, pos) ==
  LET goesOn == [left |-> FALSE, value |-> NoMetadata]
  IN  IF getUint8(b, pos) # 255
      THEN [left |-> TRUE, value |-> NoMetadata]
      ELSE LET marker    == getUint8(b, pos + 1)
               exifStart == pos + 4
           IN  IF marker = 225
               THEN IF ~Readable(b, exifStart, 6)
                    THEN [left |-> TRUE, value |-> Thrown]
                    ELSE IF SubSeq(b, exifStart + 1, exifStart + 6) = ExifHeader
                         THEN LET r == exifBlock(b, exifStart)
                              IN  IF r.kind = "dpi" THEN [left |-> TRUE, value |-> r]
                                  ELSE IF r.kind = "throw"
                                  THEN [left |-> TRUE, value |-> NoMetadata]
                                  ELSE goesOn
                         ELSE goesOn
               ELSE goesOn

\* pos += 2 + len
jpegAdvance(pos, len) == pos + 2 + len

\* the while loop of parseJPEG_EXIF_DPI, from marker position pos
RECURSIVE jpegMarkers(_, _)
jpegMarkers(b, pos) ==
  IF ~(pos + 4 < Len(b))
  THEN NoMetadata
  ELSE LET seg == jpegSegment(b, pos)
       IN  IF seg.left
           THEN seg.value
           ELSE jpegMarkers(b, jpegAdvance(pos, getUint16(b, pos + 2, FALSE)))

parseJPEG_EXIF_DPI(b) ==
  IF ~Readable(b, 0, 1)
  THEN Thrown
  ELSE IF getUint8(b, 0) # 255
       THEN NoMetadata
       ELSE IF ~Readable(b, 1, 1)
            THEN Thrown
            ELSE IF getUint8(b, 1) # 216
                 THEN NoMetadata
                 ELSE jpegMarkers(b, 2)

-----------------------------------------------------------------------------
(* Files as bytes: PNG and JPEG files built from parameters                *)

BE16(n) == <<n \div 256, n % 256>>

BE32(n) == <<n \div 16777216, (n \div 65536) % 256, (n \div 256) % 256, n % 256>>

Reverse(q) == [i \in 1..Len(q) |-> q[Len(q) + 1 - i]]

Bytes16(n, little) == IF little THEN Reverse(BE16(n)) ELSE BE16(n)

Bytes32(n, little) == IF little THEN Reverse(BE32(n)) ELSE BE32(n)

Zeros(n) == [i \in 1..n |-> 0]

\* a PNG chunk: length, type, data, CRC
PngChunk(type, data) == BE32(Len(data)) \o type \o data \o Zeros(4)

\* p.lead: an IHDR chunk comes first; p.phys: "none", "short" (a pHYs chunk of
\* length 8) or "full" (length 9: x, y, unit)
PngFile(p) ==
  PNGSignature
    \o (IF p.lead THEN PngChunk(<<73, 72, 68, 82>>, Zeros(13)) ELSE <<>>)
    \o (CASE p.phys = "full"  -> PngChunk(pHYs, BE32(p.x) \o BE32(p.y) \o <<p.unit>>)
          [] p.phys = "short" -> PngChunk(pHYs, BE32(p.x) \o BE32(p.y))
          [] OTHER            -> <<>>)
    \o PngChunk(<<73, 69, 78, 68>>, <<>>)

\* a 12-byte IFD entry
IfdEntry(tag, type, count, value, little) ==
  Bytes16(tag, little) \o Bytes16(type, little) \o Bytes32(count, little) \o value

\* the TIFF structure: header, IFD0 with XResolution, YResolution and (p.unit # 0)
\* ResolutionUnit, then the two rationals
TiffData(p) ==
  LET n == IF p.unit = 0 THEN 2 ELSE 3
      l == p.little
  IN  (IF l THEN <<73, 73>> ELSE <<77, 77>>) \o Bytes16(42, l) \o Bytes32(8, l)
        \o Bytes16(n, l)
        \o IfdEntry(282, 5, 1, Bytes32(14 + 12 * n, l), l)
        \o IfdEntry(283, 5, 1, Bytes32(22 + 12 * n, l), l)
        \o (IF p.unit = 0 THEN <<>>
            ELSE IfdEntry(296, 3, 1, Bytes16(p.unit, l) \o <<0, 0>>, l))
        \o Bytes32(0, l)
        \o Bytes32(p.xNum, l) \o Bytes32(p.xDen, l)
        \o Bytes32(p.yNum, l) \o Bytes32(p.yDen, l)

\* p.lead: "none", "app0" (a JFIF segment first) or "xmp" (an APP1 segment that is
\* not Exif first)
JpegFile(p) ==
  LET tiff == TiffData(p)
  IN  <<255, 216>>
        \o (CASE p.lead = "app0" -> <<255, 224>> \o BE16(16) \o Zeros(14)
              [] p.lead = "xmp"  -> <<255, 225>> \o BE16(8) \o <<104, 116, 116, 112, 58, 47>>
              [] OTHER           -> <<>>)
        \o <<255, 225>> \o BE16(2 + 6 + Len(tiff)) \o ExifHeader \o tiff
        \o <<255, 217>>

PngResolutions == { <<2835, 2835>>, <<3780, 11811>>, <<0, 2835>>, <<2835, 0>> }

PngParams ==
  { [kind |-> "png", lead |-> ld, phys |-> ph, x |-> r[1], y |-> r[2], unit |-> u] :
      ld \in BOOLEAN, ph \in {"none", "short", "full"}, r \in PngResolutions,
      u \in {0, 1} }

\* XResolution and YResolution as <<numerator, denominator, numerator, denominator>>
JpegResolutions ==
  { <<300, 1, 300, 1>>, <<72, 1, 96, 1>>, <<3000, 7, 300, 1>>, <<0, 1, 300, 1>>,
    <<300, 0, 300, 1>> }

JpegParams ==
  { [kind |-> "jpeg", lead |-> ld, little |-> l, xNum |-> r[1], xDen |-> r[2],
     yNum |-> r[3], yDen |-> r[4], unit |-> u] :
      ld \in {"none", "app0", "xmp"}, l \in BOOLEAN, r \in JpegResolutions,
      u \in {0, 2, 3} }

FileOf(p) == IF p.kind = "png" THEN PngFile(p) ELSE JpegFile(p)

\* the bytes f.arrayBuffer() delivers: A is a PNG with a pHYs chunk of 2835 pixels
\* per metre, B a JPEG whose EXIF block says 300 / 1 per inch
FileBytes ==
  [f \in Files |->
     IF f = "A"
     THEN PngFile([kind |-> "png", lead |-> TRUE, phys |-> "full",
                   x |-> 2835, y |-> 2835, unit |-> 1])
     ELSE JpegFile([kind |-> "jpeg", lead |-> "app0", little |-> FALSE,
                    xNum |-> 300, xDen |-> 1, yNum |-> 300, yDen |-> 1, unit |-> 2])]

\* extractDpi without the catch handler: an exception of a parser is the result
extractDpi_uncaught(b) ==
  LET pngDpi == parsePNG_DPI(b)
  IN  IF pngDpi # NoMetadata THEN pngDpi
      ELSE LET jpegDpi == parseJPEG_EXIF_DPI(b)
           IN  IF jpegDpi # NoMetadata THEN jpegDpi ELSE Unknown

\* what the promise chain of handleFileObject passes to setDpiInfo for buffer b: an
\* exception of either parser ends in the catch handler
extractDpi(b) ==
  LET pngDpi == parsePNG_DPI(b)
  IN  IF pngDpi = Thrown THEN Unknown
      ELSE IF pngDpi # NoMetadata THEN pngDpi
      ELSE LET jpegDpi == parseJPEG_EXIF_DPI(b)
           IN  IF jpegDpi = Thrown THEN Unknown
               ELSE IF jpegDpi # NoMetadata THEN jpegDpi
               ELSE Unknown

\* the then-callback of f.arrayBuffer() of a file chosen earlier
arrayBufferThen(f) ==
  /\ f \in parses
  /\ parses' = parses \ {f}
  /\ dpiInfo' = extractDpi(FileBytes[f])
  /\ last' = [op |-> "arrayBufferThen", file |-> f]
  /\ UNCHANGED <<imgElement, lastFile, loading, selVars, viewVars, stageDimensions,
                 exportVars, wheels>>

\* arrayBufferCatch that also drops the displayed image
arrayBufferCatch_clearsImage(f) ==
  /\ f \in parses
  /\ parses' = parses \ {f}
  /\ dpiInfo' = Unknown
  /\ imgElement' = NoImg
  /\ last' = [op |-> "arrayBufferCatch", file |-> f]
  /\ UNCHANGED <<lastFile, loading, selVars, viewVars, stageDimensions,
                 exportVars, wheels>>

\* f.arrayBuffer() of a file chosen earlier rejects: the catch-callback
arrayBufferCatch(f) ==
  /\ f \in parses
  /\ parses' = parses \ {f}
  /\ dpiInfo' = Unknown
  /\ last' = [op |-> "arrayBufferCatch", file |-> f]
  /\ UNCHANGED <<imgElement, lastFile, loading, selVars, viewVars, stageDimensions,
                 exportVars, wheels>>

-----------------------------------------------------------------------------
(* Initial state and inputs of the handlers *)

\* no file parse and no export in flight
NoAsync ==
  /\ dpiInfo = Unknown
  /\ parses = {}
  /\ uploads = {}
  /\ uploaded = [made |-> FALSE]
  /\ fetches = 0
  /\ inflight = 0
  /\ alerts = 0
  /\ message = [kind |-> "none"]

\* the parsers have not been handed a buffer
IdleParser ==
  /\ dv = <<>>
  /\ dvParams = [made |-> [kind |-> "none"], cut |-> 0, whole |-> TRUE]
  /\ parsed = [fn |-> "none", value |-> NoMetadata]

\* nothing sent yet
NoResponse == [status |-> 0, body |-> [none |-> TRUE], sent |-> 0]

\* the worker has no request
IdleWorker ==
  /\ request = [kind |-> "none"]
  /\ pc = "idle"
  /\ stored = FALSE
  /\ inserted = FALSE
  /\ response = NoResponse

\* the component after its first render
InitComponent ==
  /\ imgElement = NoImg
  /\ lastFile = NoImg
  /\ loading = {}
  /\ selection = [x |-> 50, y |-> 50, width |-> 300, height |-> 300]
  /\ keepRatio = FALSE
  /\ aspect = DEFAULT_ASPECT
  /\ imageScale = I(1)
  /\ imageOffset = [x |-> I(0), y |-> I(0)]
  /\ isPanning = FALSE
  /\ panLast = NoPos
  /\ stageDimensions = [width |-> 800, height |-> 600]
  /\ rectNode = [x |-> 50, y |-> 50, width |-> 300, height |-> 300,
                 scaleX |-> I(1), scaleY |-> I(1)]
  /\ exported = [made |-> FALSE]
  /\ last = [op |-> "none"]
  /\ wheels = 0
  /\ steps = 0
  /\ NoAsync

Init == InitComponent /\ IdleParser /\ IdleWorker

Box(x, y, w, h) == [x |-> x, y |-> y, width |-> I(w), height |-> I(h)]

\* boxes the Transformer proposes while an anchor is dragged
NewBoxes ==
  { Box(100, 100, 100, 100), Box(100, 100, 130, 110), Box(100, 100, 200, 150),
    Box(100, 100, 110, 140), Box(300, 200, 10, 100), Box(300, 200, 5, 200),
    Box(700, 500, 200, 150), Box(100, 400, 120, -80), Box(50, 50, 800, 300) }

\* positions a drag of the rectangle ends at
DragPositions == { <<-20, -30>>, <<100, 100>>, <<450, 280>>, <<790, 590>> }

\* sizes the container is measured at
StageSizes == { <<800, 600>>, <<400, 300>> }

-----------------------------------------------------------------------------
(* The selection under load, reset, drag, resize, aspect change, lock and  *)
(* stage resize                                                            *)

SelStep ==
  \/ \E f \in {"A"} : handleFileObject(f)
  \/ \E l \in loading : imgOnload(l)
  \/ Reset
  \/ \E nb \in NewBoxes : Transform(nb)
  \/ handleRectTransformEnd
  \/ \E p \in DragPositions : RectDragEnd(p[1], p[2])
  \/ \E a \in AspectNames : AspectChange(a)
  \/ ToggleKeepRatio
  \/ \E d \in StageSizes : measure(d[1], d[2])

NextSel ==
  /\ steps < MaxSelSteps
  /\ steps' = steps + 1
  /\ SelStep
  /\ UNCHANGED <<parserVars, workerVars>>

SpecSel == Init /\ [][NextSel]_vars

-----------------------------------------------------------------------------
(* The viewport under load, reset, pan, wheel, range and number zoom and   *)
(* stage resize                                                            *)

\* pointer positions on the stage
Pointers == { <<400, 0>>, <<400, 300>> }

\* where the mouse is pressed to start a pan
PanStarts == { <<400, 300>> }

\* the size the stage is measured at after the window has shrunk
ViewStageSizes == { <<400, 300>> }

\* where the pointer is when the wheel turns
WheelPointers == { <<400, 0>> }

\* values of the range input (step 0.01 between 0.2 and 3)
RangeValues == { <<2, 5>>, <<1, 2>> }

\* values of the number input
NumberEntries ==
  { [kind |-> "NaN"], [kind |-> "Infinity"] }

\* handlers that change the image's scale or offset by an input-dependent amount
ViewZoomPan ==
  \/ \E p \in Pointers : handleStageMouseMove(p)
  \/ \E p \in WheelPointers, dir \in BOOLEAN : handleWheel(p, dir)
  \/ \E v \in RangeValues : zoomRangeChange(v)
  \/ \E e \in NumberEntries : zoomNumberChange(e)

ViewOther ==
  \/ \E f \in {"B"} : handleFileObject(f)
  \/ \E l \in loading : imgOnload(l)
  \/ Reset
  \/ \E p \in PanStarts : handleStageMouseDown(p)
  \/ handleStageMouseUp
  \/ \E d \in ViewStageSizes : measure(d[1], d[2])

NextView ==
  /\ \/ steps < MaxViewSteps /\ steps' = steps + 1 /\ ViewZoomPan
     \/ steps' = steps /\ ViewOther
  /\ UNCHANGED <<parserVars, workerVars>>

SpecView == Init /\ [][NextView]_vars

-----------------------------------------------------------------------------
(* The whole component: every handler, a bounded number of events          *)

Next ==
  /\ steps < MaxSteps
  /\ steps' = steps + 1
  /\ \/ SelStep
     \/ ViewZoomPan
     \/ ViewOther
     \/ exportCropped
     \/ \E u \in uploads : toBlobCallback(u)
     \/ \E o \in FetchOutcomes : fetchSettled(o)
     \/ \E f \in parses : arrayBufferThen(f)
     \/ \E f \in parses : arrayBufferCatch(f)
  /\ UNCHANGED <<parserVars, workerVars>>

Spec == Init /\ [][Next]_vars

-----------------------------------------------------------------------------
(* The resize hook on its own: every proposed box against selections of    *)
(* several sizes, with the lock on and off and each aspect ratio           *)

ResizeSelections ==
  { [x |-> 50, y |-> 50, width |-> 300, height |-> 300],
    [x |-> 100, y |-> 100, width |-> 100, height |-> 100] }

ResizeExtents == { -110, 5, 10, 100, 110, 130 }

ResizeBoxes == { Box(100, 100, w, h) : w \in ResizeExtents, h \in ResizeExtents }

InitResize ==
  /\ imgElement = NoImg
  /\ lastFile = NoImg
  /\ loading = {}
  /\ selection \in ResizeSelections
  /\ keepRatio \in BOOLEAN
  /\ aspect \in AspectNames
  /\ imageScale = I(1)
  /\ imageOffset = [x |-> I(0), y |-> I(0)]
  /\ isPanning = FALSE
  /\ panLast = NoPos
  /\ stageDimensions = [width |-> 800, height |-> 600]
  /\ rectNode = [x |-> selection.x, y |-> selection.y, width |-> selection.width,
                 height |-> selection.height, scaleX |-> I(1), scaleY |-> I(1)]
  /\ exported = [made |-> FALSE]
  /\ last = [op |-> "none"]
  /\ wheels = 0
  /\ steps = 0
  /\ NoAsync
  /\ IdleParser
  /\ IdleWorker

NextResize ==
  /\ steps' = steps
  /\ \E nb \in ResizeBoxes : Transform(nb)
  /\ UNCHANGED <<parserVars, workerVars>>

SpecResize == InitResize /\ [][NextResize]_vars

-----------------------------------------------------------------------------
(* Dragging on its own: rectangles of several sizes, dropped anywhere      *)

ClampSelections ==
  { [x |-> 50, y |-> 50, width |-> 300, height |-> 300],
    [x |-> 0, y |-> 0, width |-> 400, height |-> 300],
    [x |-> 200, y |-> 0, width |-> 400, height |-> 600],
    [x |-> 300, y |-> 200, width |-> 10, height |-> 10] }

DragCoords == { -500, -20, 0, 100, 450, 790, 1200 }

InitClamp ==
  /\ imgElement = NoImg
  /\ lastFile = NoImg
  /\ loading = {}
  /\ stageDimensions \in { [width |-> d[1], height |-> d[2]] : d \in StageSizes }
  /\ selection \in ClampSelections
  /\ keepRatio = FALSE
  /\ aspect = DEFAULT_ASPECT
  /\ imageScale = I(1)
  /\ imageOffset = [x |-> I(0), y |-> I(0)]
  /\ isPanning = FALSE
  /\ panLast = NoPos
  /\ rectNode = [x |-> selection.x, y |-> selection.y, width |-> selection.width,
                 height |-> selection.height, scaleX |-> I(1), scaleY |-> I(1)]
  /\ exported = [made |-> FALSE]
  /\ last = [op |-> "none"]
  /\ wheels = 0
  /\ steps = 0
  /\ NoAsync
  /\ IdleParser
  /\ IdleWorker

NextClamp ==
  /\ steps' = steps
  /\ \E x \in DragCoords, y \in DragCoords : RectDragEnd(x, y)
  /\ UNCHANGED <<parserVars, workerVars>>

SpecClamp == InitClamp /\ [][NextClamp]_vars

-----------------------------------------------------------------------------
(* The export mapping on its own: a loaded image, viewports the clamp      *)
(* accepts, several selections                                             *)

ExportScales == { <<1, 2>>, <<1, 1>>, <<21, 20>>, <<2, 1>> }

ExportOffsets == { [x |-> I(a), y |-> I(b)] : a \in {-400, -100, 0}, b \in {-500, -200, 0} }

ExportSelections ==
  { [x |-> 100, y |-> 100, width |-> 200, height |-> 150],
    [x |-> 50, y |-> 50, width |-> 300, height |-> 300],
    [x |-> 0, y |-> 0, width |-> 800, height |-> 600],
    [x |-> 293, y |-> 177, width |-> 33, height |-> 71] }

InitExport ==
  /\ imgElement \in Files
  /\ lastFile = imgElement
  /\ loading = {}
  /\ stageDimensions \in { [width |-> d[1], height |-> d[2]] : d \in StageSizes }
  /\ selection \in ExportSelections
  /\ keepRatio = FALSE
  /\ aspect = DEFAULT_ASPECT
  /\ imageScale \in ExportScales
  /\ imageOffset \in { o \in ExportOffsets : clampOffset(o) = o }
  /\ isPanning = FALSE
  /\ panLast = NoPos
  /\ rectNode = [x |-> selection.x, y |-> selection.y, width |-> selection.width,
                 height |-> selection.height, scaleX |-> I(1), scaleY |-> I(1)]
  /\ exported = [made |-> FALSE]
  /\ last = [op |-> "none"]
  /\ wheels = 0
  /\ steps = 0
  /\ NoAsync
  /\ IdleParser
  /\ IdleWorker

NextExport ==
  /\ steps' = steps
  /\ exportCropped
  /\ UNCHANGED <<parserVars, workerVars>>

SpecExport == InitExport /\ [][NextExport]_vars

-----------------------------------------------------------------------------
(* Loading and Reset on their own: every aspect ratio, several stage sizes  *)
(* and viewports, with the stage measured again while a load is pending,   *)
(* and the metadata of each chosen file arriving at any later time         *)

LoadStageSizes == { <<800, 600>>, <<400, 300>>, <<1000, 500>> }

LoadScales == { <<1, 2>>, <<1, 1>>, <<3, 1>> }

LoadOffsets == { [x |-> I(0), y |-> I(0)], [x |-> I(-50), y |-> I(20)] }

InitLoad ==
  /\ imgElement = NoImg
  /\ lastFile = NoImg
  /\ loading = {}
  /\ stageDimensions \in { [width |-> d[1], height |-> d[2]] : d \in LoadStageSizes }
  /\ selection = [x |-> 50, y |-> 50, width |-> 300, height |-> 300]
  /\ keepRatio = FALSE
  /\ aspect \in AspectNames
  /\ imageScale \in LoadScales
  /\ imageOffset \in LoadOffsets
  /\ isPanning = FALSE
  /\ panLast = NoPos
  /\ rectNode = [x |-> selection.x, y |-> selection.y, width |-> selection.width,
                 height |-> selection.height, scaleX |-> I(1), scaleY |-> I(1)]
  /\ exported = [made |-> FALSE]
  /\ last = [op |-> "none"]
  /\ wheels = 0
  /\ steps = 0
  /\ NoAsync
  /\ IdleParser
  /\ IdleWorker

NextLoad ==
  /\ steps' = steps
  /\ \/ \E f \in Files : handleFileObject(f)
     \/ \E l \in loading : imgOnload(l)
     \/ \E f \in parses : arrayBufferThen(f)
     \/ \E f \in parses : arrayBufferCatch(f)
     \/ Reset
     \/ \E d \in LoadStageSizes : measure(d[1], d[2])
  /\ UNCHANGED <<parserVars, workerVars>>

SpecLoad == InitLoad /\ [][NextLoad]_vars

-----------------------------------------------------------------------------
(* Zooming on its own: wheel, range and number inputs, with and without an *)
(* image                                                                   *)

\* values the range input delivers (between its min and max)
ZoomRangeValues == { <<1, 2>>, <<3, 1>> }

\* what Number(e.target.value) of the number input can be
ZoomNumberEntries ==
  { [kind |-> "NaN"], [kind |-> "Infinity"], [kind |-> "-Infinity"],
    [kind |-> "num", val |-> I(0)], [kind |-> "num", val |-> I(-1)],
    [kind |-> "num", val |-> I(5)], [kind |-> "num", val |-> <<5, 4>>] }

ZoomInput ==
  \/ \E p \in WheelPointers, dir \in BOOLEAN : handleWheel(p, dir)
  \/ \E v \in ZoomRangeValues : zoomRangeChange(v)
  \/ \E e \in ZoomNumberEntries : zoomNumberChange(e)

ZoomOther ==
  \/ \E f \in {"A"} : handleFileObject(f)
  \/ \E l \in loading : imgOnload(l)
  \/ Reset

NextZoom ==
  /\ \/ steps < MaxZoomSteps /\ steps' = steps + 1 /\ ZoomInput
     \/ steps' = steps /\ ZoomOther
  /\ UNCHANGED <<parserVars, workerVars>>

SpecZoom == Init /\ [][NextZoom]_vars

-----------------------------------------------------------------------------
(* Export and its toBlob callback, with the user editing in between: from  *)
(* the state after file A was loaded, a bounded number of edits            *)

InitLoaded ==
  /\ imgElement = "A"
  /\ lastFile = "A"
  /\ loading = {}
  /\ stageDimensions = [width |-> 800, height |-> 600]
  /\ selection = initialSelection(800, 600, DEFAULT_ASPECT)
  /\ keepRatio = FALSE
  /\ aspect = DEFAULT_ASPECT
  /\ imageScale = I(1)
  /\ imageOffset = [x |-> I(0), y |-> I(0)]
  /\ isPanning = FALSE
  /\ panLast = NoPos
  /\ rectNode = [x |-> selection.x, y |-> selection.y, width |-> selection.width,
                 height |-> selection.height, scaleX |-> I(1), scaleY |-> I(1)]
  /\ exported = [made |-> FALSE]
  /\ last = [op |-> "onload",
             load |-> [file |-> "A", aspect |-> DEFAULT_ASPECT,
                       stageWidth |-> 800, stageHeight |-> 600]]
  /\ wheels = 0
  /\ steps = 0
  /\ dpiInfo = extractDpi(FileBytes["A"])
  /\ parses = {}
  /\ uploads = {}
  /\ uploaded = [made |-> FALSE]
  /\ fetches = 0
  /\ inflight = 0
  /\ alerts = 0
  /\ message = [kind |-> "none"]
  /\ IdleParser
  /\ IdleWorker

NextSnapshot ==
  /\ \/ /\ steps < MaxEdits
        /\ steps' = steps + 1
        /\ \/ SelStep
           \/ ViewZoomPan
           \/ ViewOther
     \/ /\ steps' = steps
        /\ \/ exportCropped
           \/ \E u \in uploads : toBlobCallback(u)
           \/ \E f \in parses : arrayBufferThen(f)
  /\ UNCHANGED <<parserVars, workerVars>>

SpecSnapshot == InitLoaded /\ [][NextSnapshot]_vars

-----------------------------------------------------------------------------
(* Export from the first render on: with and without an image and a 2D     *)
(* context, each upload settling in one of its outcomes                    *)

NextPost ==
  /\ steps' = steps
  /\ \/ \E f \in Files : handleFileObject(f)
     \/ \E l \in loading : imgOnload(l)
     \/ \E f \in parses : arrayBufferThen(f)
     \/ exportCropped
     \/ \E u \in uploads : toBlobCallback(u)
     \/ \E o \in FetchOutcomes : fetchSettled(o)
  /\ UNCHANGED <<parserVars, workerVars>>

SpecPost == Init /\ [][NextPost]_vars

-----------------------------------------------------------------------------
(* The upload worker: POST /api/upload.  A request is what the handler can *)
(* tell apart; each await of the handler ends one step; the object store   *)
(* and the database succeed or throw.                                      *)

\* values crypto.randomUUID() returns
Ids == {"id1", "id2", "id3"}

\* body: multipart form data or not; image: a File, absent, an empty string or a
\* text field; metadata: a JSON object, absent, the JSON text null, or no JSON
Requests ==
  [kind : {"POST", "GET"}, path : {"/api/upload", "/api/"},
   body : {"multipart", "invalid"},
   image : {"file", "missing", "empty", "text"},
   metadata : {"json", "missing", "null", "malformed"}, id : {"none"}]

\* the route test of the upload handler
isUpload(r) == r.path = "/api/upload" /\ r.kind = "POST"

\* Response.json({success: true, id, filename, url})
Success(id) ==
  [status |-> 200,
   body |-> [success |-> TRUE, id |-> id, filename |-> <<id, ".png">>,
             url |-> <<"/api/images/", id>>]]

\* Response.json({error}, {status})
Failure(status, error) == [status |-> status, body |-> [error |-> error]]

\* the handler returns r
respond(r) ==
  /\ response' = [status |-> r.status, body |-> r.body, sent |-> response.sent + 1]
  /\ pc' = "done"

\* the response after the insert, whatever its outcome
insertResponse_always(ok, id) == Success(id)

\* the response after the insert: ok, or the insert threw
insertResponse(ok, id) ==
  IF ok THEN Success(id) ELSE Failure(500, "Upload failed")

\* a request arrives; the handler runs up to await request.formData()
Receive(r) ==
  /\ pc \in {"idle", "done"}
  /\ isUpload(r)
  /\ request' = r
  /\ pc' = "formData"
  /\ stored' = FALSE
  /\ inserted' = FALSE
  /\ response' = NoResponse

\* a request for another route: answered by the name route or handed to the assets
\* (found or not)
ReceiveOther(r, found) ==
  /\ pc \in {"idle", "done"}
  /\ ~isUpload(r)
  /\ request' = r
  /\ stored' = FALSE
  /\ inserted' = FALSE
  /\ pc' = "done"
  /\ response' =
       IF r.path = "/api/"
       THEN [status |-> 200, body |-> [name |-> "Cloudflare"], sent |-> 1]
       ELSE [status |-> IF found THEN 200 ELSE 404, body |-> [asset |-> found],
             sent |-> 1]

\* formData() settles: the fields are read, the metadata parsed, the image tested,
\* the id drawn, and the handler runs up to await env.IMAGES.put(...)
formDataDone(id) ==
  /\ pc = "formData"
  /\ UNCHANGED <<stored, inserted>>
  /\ IF request.body = "invalid" \/ request.metadata = "malformed"
     THEN respond(Failure(500, "Upload failed")) /\ UNCHANGED request
     ELSE IF request.image \in {"missing", "empty"}
     THEN respond(Failure(400, "No image provided")) /\ UNCHANGED request
     ELSE IF request.image = "text"
     THEN /\ respond(Failure(500, "Upload failed"))
          /\ request' = [request EXCEPT !.id = id]
     ELSE /\ request' = [request EXCEPT !.id = id]
          /\ pc' = "put"
          /\ UNCHANGED response

\* put settles: the object is stored or put threw; then the values to bind are
\* read from the metadata and the handler runs up to await ...run()
putDone(ok) ==
  /\ pc = "put"
  /\ stored' = ok
  /\ UNCHANGED <<request, inserted>>
  /\ IF ~ok \/ request.metadata \in {"missing", "null"}
     THEN respond(Failure(500, "Upload failed"))
     ELSE pc' = "insert" /\ UNCHANGED response

\* run settles: the row is inserted or run threw
insertDone(ok) ==
  /\ pc = "insert"
  /\ inserted' = ok
  /\ UNCHANGED <<request, stored>>
  /\ respond(insertResponse(ok, request.id))

NextUpload ==
  /\ \/ \E r \in Requests : Receive(r)
     \/ \E r \in Requests, found \in BOOLEAN : ReceiveOther(r, found)
     \/ \E id \in Ids : formDataDone(id)
     \/ \E ok \in BOOLEAN : putDone(ok)
     \/ \E ok \in BOOLEAN : insertDone(ok)
  /\ UNCHANGED <<fileVars, selVars, viewVars, stageDimensions, exportVars, last,
                 wheels, steps, parserVars>>

SpecUpload == Init /\ [][NextUpload]_vars

-----------------------------------------------------------------------------
(* The parsers on their own: every prefix of each generated file           *)

InitParse ==
  /\ InitComponent
  /\ IdleWorker
  /\ \E p \in PngParams \cup JpegParams :
       \E cut \in 0..Len(FileOf(p)) :
         /\ dv = SubSeq(FileOf(p), 1, cut)
         /\ dvParams = [made |-> p, cut |-> cut, whole |-> (cut = Len(FileOf(p)))]
  /\ parsed = [fn |-> "none", value |-> NoMetadata]

runParsePNG ==
  /\ parsed' = [fn |-> "parsePNG_DPI", value |-> parsePNG_DPI(dv)]
  /\ UNCHANGED <<dv, dvParams>>

runParseJPEG ==
  /\ parsed' = [fn |-> "parseJPEG_EXIF_DPI", value |-> parseJPEG_EXIF_DPI(dv)]
  /\ UNCHANGED <<dv, dvParams>>

\* the promise chain of handleFileObject on the buffer
runExtractDpi ==
  /\ parsed' = [fn |-> "extractDpi", value |-> extractDpi(dv)]
  /\ UNCHANGED <<dv, dvParams>>

NextParse ==
  /\ \/ runParsePNG
     \/ runParseJPEG
     \/ runExtractDpi
  /\ UNCHANGED <<fileVars, selVars, viewVars, stageDimensions, rectNode, exportVars,
                 last, wheels, steps, workerVars>>

SpecParse == InitParse /\ [][NextParse]_vars

-----------------------------------------------------------------------------
(* The two loops pass by pass, on buffers whose length fields are extreme: *)
(* parsed holds the loop variable, the passes made and, once the function   *)
(* has returned or thrown (done), its outcome.  A function that was called  *)
(* keeps running, hence the fairness.                                       *)

IDAT == <<73, 68, 65, 84>>

\* length fields of PNG chunks: 0, 1, 8, 9, 2^31 - 1, 2^32 - 12, 2^32 - 1
WalkLengths ==
  { <<0, 0, 0, 0>>, <<0, 0, 0, 1>>, <<0, 0, 0, 8>>, <<0, 0, 0, 9>>,
    <<127, 255, 255, 255>>, <<255, 255, 255, 244>>, <<255, 255, 255, 255>> }

\* a signature, two empty chunks, a chunk with length field n of type t, filler
WalkPng(n, t) ==
  PNGSignature \o PngChunk(IDAT, <<>>) \o PngChunk(IDAT, <<>>) \o n \o t \o Zeros(24)

\* length fields of JPEG segments
WalkSegmentLengths == {0, 1, 2, 3, 65535}

\* a start marker, two segments of length 2, a segment with marker m and length
\* field n, filler that begins like a marker
WalkJpeg(n, m) ==
  <<255, 216>> \o <<255, 224>> \o BE16(2) \o <<255, 224>> \o BE16(2)
    \o <<255, m>> \o BE16(n) \o <<255, 224, 255, 224, 255, 224, 0, 0>>

WalkFiles ==
  { [kind |-> "png", bytes |-> WalkPng(n, t), big |-> (n[1] >= 127)] :
      n \in WalkLengths, t \in {IDAT, pHYs} }
    \cup { [kind |-> "jpeg", bytes |-> WalkJpeg(n, m), big |-> FALSE] :
             n \in WalkSegmentLengths, m \in {224, 225} }

NotCalled == [fn |-> "none", value |-> NoMetadata, done |-> FALSE, passes |-> 0]

InitWalk ==
  /\ InitComponent
  /\ IdleWorker
  /\ \E f \in WalkFiles :
       \E cut \in 0..Len(f.bytes) :
         /\ dv = SubSeq(f.bytes, 1, cut)
         /\ dvParams = [made |-> [kind |-> f.kind, big |-> f.big], cut |-> cut,
                        whole |-> (cut = Len(f.bytes))]
  /\ parsed = NotCalled

\* parsePNG_DPI is called: up to the first test of the loop condition
pngCall ==
  /\ parsed.fn = "none"
  /\ parsed' =
       IF Len(dv) < 24 \/ SubSeq(dv, 1, 8) # PNGSignature
       THEN [fn |-> "parsePNG_DPI", value |-> NoMetadata, done |-> TRUE, passes |-> 0,
             offset |-> Wide(8)]
       ELSE [fn |-> "parsePNG_DPI", value |-> NoMetadata, done |-> FALSE, passes |-> 0,
             offset |-> Wide(8)]

\* the loop condition of parsePNG_DPI and, where it holds, one pass of the body
pngPass ==
  /\ parsed.fn = "parsePNG_DPI"
  /\ ~parsed.done
  /\ parsed' =
       IF ~WLt(WAdd(parsed.offset, Wide(8)), Wide(Len(dv)))
       THEN [parsed EXCEPT !.done = TRUE, !.value = NoMetadata]
       ELSE LET offset == parsed.offset[2]
                length == getUint32Wide(dv, offset)
                type   == SubSeq(dv, offset + 5, offset + 8)
            IN  IF type = pHYs /\ ~WLt(length, Wide(9))
                THEN [parsed EXCEPT !.done = TRUE, !.value = physChunk(dv, offset),
                                    !.passes = @ + 1]
                ELSE [parsed EXCEPT !.offset = pngAdvance(@, length), !.passes = @ + 1]

\* parseJPEG_EXIF_DPI is called: up to the first test of the loop condition
jpegCall ==
  /\ parsed.fn = "none"
  /\ parsed' =
       IF ~Readable(dv, 0, 1)
       THEN [fn |-> "parseJPEG_EXIF_DPI", value |-> Thrown, done |-> TRUE,
             passes |-> 0, pos |-> 2]
       ELSE IF getUint8(dv, 0) # 255
       THEN [fn |-> "parseJPEG_EXIF_DPI", value |-> NoMetadata, done |-> TRUE,
             passes |-> 0, pos |-> 2]
       ELSE IF ~Readable(dv, 1, 1)
       THEN [fn |-> "parseJPEG_EXIF_DPI", value |-> Thrown, done |-> TRUE,
             passes |-> 0, pos |-> 2]
       ELSE IF getUint8(dv, 1) # 216
       THEN [fn |-> "parseJPEG_EXIF_DPI", value |-> NoMetadata, done |-> TRUE,
             passes |-> 0, pos |-> 2]
       ELSE [fn |-> "parseJPEG_EXIF_DPI", value |-> NoMetadata, done |-> FALSE,
             passes |-> 0, pos |-> 2]

\* the loop condition of parseJPEG_EXIF_DPI and, where it holds, one pass of the body
jpegPass ==
  /\ parsed.fn = "parseJPEG_EXIF_DPI"
  /\ ~parsed.done
  /\ parsed' =
       IF ~(parsed.pos + 4 < Len(dv))
       THEN [parsed EXCEPT !.done = TRUE, !.value = NoMetadata]
       ELSE LET seg == jpegSegment(dv, parsed.pos)
            IN  IF seg.left
                THEN [parsed EXCEPT !.done = TRUE, !.value = seg.value,
                                    !.passes = @ + 1]
                ELSE [parsed EXCEPT
                        !.pos = jpegAdvance(@, getUint16(dv, parsed.pos + 2, FALSE)),
                        !.passes = @ + 1]

NextWalk ==
  /\ \/ pngCall
     \/ pngPass
     \/ jpegCall
     \/ jpegPass
  /\ UNCHANGED <<dv, dvParams, fileVars, selVars, viewVars, stageDimensions,
                 exportVars, last, wheels, steps, workerVars>>

SpecWalk == InitWalk /\ [][NextWalk]_vars /\ WF_vars(NextWalk)

-----------------------------------------------------------------------------
(* Properties *)

\* w / h equals the ratio ar up to the rounding of w and h to integers: some W, H
\* with W / H = ar lie within 1/2 of w and h
\* the rectangle lies in the stage
InStage(sel) ==
  /\ 0 <= sel.x
  /\ 0 <= sel.y
  /\ sel.x + sel.width <= stageWidth
  /\ sel.y + sel.height <= stageHeight

\* on one axis: the image covers the stage when it is at least as long as the stage,
\* and is centred when it is shorter
CoversOrCentred(start, extent, stage) ==
  IF RLe(I(stage), extent)
  THEN RLe(start, I(0)) /\ RLe(I(stage), RAdd(start, extent))
  ELSE start = RDiv(RSub(I(stage), extent), I(2))

\* C1: the offset clampOffset returns places the displayed image (top-left = base +
\* offset) so that on each axis where it is at least as long as the stage it covers
\* the stage, and on each axis where it is shorter it is exactly centred.  Stated of
\* the offset a pan move stores, which is clampOffset's result under the geometry on
\* screen.
C1_CoversOrCentred ==
  (last.op = "MouseMove" /\ imgElement # NoImg) =>
    /\ CoversOrCentred(imageX, displayedImageWidth, stageWidth)
    /\ CoversOrCentred(imageY, displayedImageHeight, stageHeight)

\* C2: in every reachable state the selection rectangle is contained in the stage.
C2_SelectionInStage == InStage(selection)

\* C3: zoomAt applied a second time with the same pointer and the same scale leaves
\* the scale and the offset the first application left.
C3_ZoomIdempotent ==
  [][(last.op = "zoomAt" /\ last' = last) =>
       (imageScale' = imageScale /\ imageOffset' = imageOffset)]_vars

\* the image-space point that lies under stage point (px, py) when the stage is sw x sh
\* and the view has scale sc and offset off: (pointer - base - offset) / scale
imagePointUnder(px, py, sw, sh, sc, off) ==
  LET dispW == RMul(I(sw), sc)
      dispH == IF imgElement = NoImg
               THEN I(sh)
               ELSE RDiv(RMul(I(naturalHeight[imgElement]), dispW),
                         I(naturalWidth[imgElement]))
      bX    == RDiv(RSub(I(sw), dispW), I(2))
      bY    == RDiv(RSub(I(sh), dispH), I(2))
  IN  [x |-> RDiv(RSub(RSub(px, bX), off.x), sc),
       y |-> RDiv(RSub(RSub(py, bY), off.y), sc)]

\* C4: after zoomAt, whenever clampOffset did not alter the computed offset, the
\* image-space point under the pointer in the post-zoom transform, (pointer - newBase
\* - newOffset) / newScale, equals the one of the pre-zoom transform, (pointer -
\* oldBase - oldOffset) / oldScale.
C4_ZoomAnchored ==
  [][(/\ last'.op = "zoomAt"
      /\ imgElement # NoImg
      /\ imageOffset' = zoomOffset(last'.px, last'.py, last'.s)) =>
       imagePointUnder(last'.px, last'.py, stageWidth, stageHeight, imageScale', imageOffset')
         = imagePointUnder(last'.px, last'.py, stageWidth, stageHeight, imageScale, imageOffset)]_vars

RatioWithinRounding(w, h, ar) ==
  RLe(RAbs(RSub(w, RMul(ar, h))), RDiv(RAdd(I(1), ar), I(2)))

\* the last handler was a resize step with the lock on and a proposed box of at least
\* the minimum size on both axes
LockedResize ==
  /\ last.op = "Transform"
  /\ keepRatio
  /\ RLe(I(MIN_SIZE), RAbs(last.newBox.width))
  /\ RLe(I(MIN_SIZE), RAbs(last.newBox.height))

\* C5 as stated: a locked resize of a box of at least the minimum size returns a
\* box whose width / height equals the active aspect ratio within rounding tolerance.
C5_RatioAsStated ==
  LockedResize =>
    RatioWithinRounding(last.box.width, last.box.height, ASPECT_RATIOS[aspect])

\* C5 amended: a locked resize of a box of at least the minimum size returns a box
\* with |width| / |height| equal to the active aspect ratio; each dimension keeps the
\* sign the proposed box gave it, so width / height is the negated ratio when the
\* proposed width and height differ in sign.
C5_AbsRatio ==
  LockedResize =>
    /\ RAbs(last.box.width) = RMul(ASPECT_RATIOS[aspect], RAbs(last.box.height))
    /\ RLt(last.box.width, I(0)) <=> RLt(last.newBox.width, I(0))
    /\ RLt(last.box.height, I(0)) <=> RLt(last.newBox.height, I(0))

C5_Witness ==
  /\ LockedResize
  /\ aspect = "2:3"
  /\ last.newBox = Box(100, 100, 130, -110)
  /\ last.box = [x |-> 100, y |-> 100, width |-> I(130), height |-> I(-195)]

\* C6: in a locked resize (of a proposed box that passes the minimum-size check) the
\* axis with the larger absolute change drives: if |dw| > |dh| the width is the
\* proposed width and the height is |width| / ratio with the sign of the proposed
\* height; if |dh| > |dw| the height is the proposed height and the width is
\* |height| * ratio with the sign of the proposed width.
C6_DrivingAxis ==
  LockedResize =>
    LET ar == ASPECT_RATIOS[aspect]
        nb == last.newBox
        dw == RAbs(RSub(nb.width, last.oldBox.width))
        dh == RAbs(RSub(nb.height, last.oldBox.height))
        sw == IF RLt(nb.width, I(0)) THEN I(-1) ELSE I(1)
        sh == IF RLt(nb.height, I(0)) THEN I(-1) ELSE I(1)
    IN  /\ RLt(dh, dw) =>
             /\ last.box.width = nb.width
             /\ last.box.height = RMul(sh, RDiv(RAbs(nb.width), ar))
        /\ RLt(dw, dh) =>
             /\ last.box.height = nb.height
             /\ last.box.width = RMul(sw, RMul(RAbs(nb.height), ar))

\* the spec's example: old 100 x 100, proposed 130 x 110, here with ratio 16:9
C6_Witness ==
  /\ LockedResize
  /\ aspect = "16:9"
  /\ last.oldBox = Box(100, 100, 100, 100)
  /\ last.newBox = Box(100, 100, 130, 110)
  /\ last.box = [x |-> 100, y |-> 100, width |-> I(130), height |-> <<585, 8>>]

\* C7: in every reachable state the selection's width and height are both at least
\* 10 units.
C7_MinimumSize == selection.width >= MIN_SIZE /\ selection.height >= MIN_SIZE

\* C8: in every reachable state with the lock on, the selection's width / height
\* equals the active ratio within rounding tolerance.
C8_LockedRatio ==
  keepRatio =>
    RatioWithinRounding(I(selection.width), I(selection.height), ASPECT_RATIOS[aspect])

\* C9: for a selection no wider and no taller than the stage, dropped at any x, y,
\* the clamp returns a rectangle with x >= 0, y >= 0, x + width <= stageWidth and
\* y + height <= stageHeight.
C9_ClampInStage ==
  (/\ last.op = "DragEnd"
   /\ selection.width <= stageWidth
   /\ selection.height <= stageHeight) => InStage(selection)

\* a 300 x 300 rectangle dropped beyond the right and bottom edges of the stage
C9_Witness ==
  /\ last.op = "DragEnd"
  /\ last.x = 790 /\ last.y = 1200
  /\ selection.width = 300 /\ selection.height = 300
  /\ selection.x = stageWidth - 300 /\ selection.y = stageHeight - 300

\* C10: the crop an export reports is sx = round((selection.x - imageX) * scaleNat),
\* sy = round((selection.y - imageY) * scaleNat), sWidth = round(selection.width *
\* scaleNat), sHeight = round(selection.height * scaleNat), with imageX = baseX +
\* offset.x, imageY = baseY + offset.y and scaleNat = naturalWidth / displayedWidth,
\* not clamped to the image; the spec's example maps to {200, 200, 400, 300}.
C10_CropRegion ==
  exported.made =>
    LET natW     == I(naturalWidth[imgElement])
        natH     == I(naturalHeight[imgElement])
        dispW    == RMul(I(stageWidth), imageScale)
        dispH    == RDiv(RMul(natH, dispW), natW)
        imgX     == RAdd(RDiv(RSub(I(stageWidth), dispW), I(2)), imageOffset.x)
        imgY     == RAdd(RDiv(RSub(I(stageHeight), dispH), I(2)), imageOffset.y)
        scaleNat == RDiv(natW, dispW)
    IN  /\ exported.cropX = RRound(RMul(RSub(I(selection.x), imgX), scaleNat))
        /\ exported.cropY = RRound(RMul(RSub(I(selection.y), imgY), scaleNat))
        /\ exported.cropWidth = RRound(RMul(I(selection.width), scaleNat))
        /\ exported.cropHeight = RRound(RMul(I(selection.height), scaleNat))
        /\ (/\ stageWidth = 800 /\ stageHeight = 600
            /\ imageScale = I(1) /\ imageOffset = [x |-> I(0), y |-> I(0)]
            /\ imgElement = "A"
            /\ selection = [x |-> 100, y |-> 100, width |-> 200, height |-> 150])
           => /\ exported.cropX = 200 /\ exported.cropY = 200
              /\ exported.cropWidth = 400 /\ exported.cropHeight = 300

\* the spec's example: stage 800, scale 1, offset 0, image 1600 x 1200
C10_Witness ==
  /\ exported.made
  /\ stageWidth = 800 /\ imageScale = I(1) /\ imageOffset = [x |-> I(0), y |-> I(0)]
  /\ naturalWidth[imgElement] = 1600 /\ naturalHeight[imgElement] = 1200
  /\ selection = [x |-> 100, y |-> 100, width |-> 200, height |-> 150]
  /\ exported.cropX = 200 /\ exported.cropY = 200
  /\ exported.cropWidth = 400 /\ exported.cropHeight = 300

\* C14: in every reachable state, after any sequence of wheel, slider and numeric
\* zoom inputs (non-numeric entries, 0 and infinities included), the viewport scale
\* lies in [0.2, 3.0].
C14_ScaleInRange == RLe(<<1, 5>>, imageScale) /\ RLe(imageScale, <<3, 1>>)

\* no wheel event yet and the scale sits at 0.2: a number entry of 0, -1 or -Infinity
\* was raised to the minimum
C14_Witness ==
  /\ last.op = "zoomAt"
  /\ wheels = 0
  /\ imageScale = <<1, 5>>

\* C15: when a file finishes decoding, or the view is reset, the selection installed
\* is centred in the stage, has width / height matching the active aspect ratio, and
\* lies inside the stage.
C15_InitialSelectionFits ==
  (last.op = "onload" \/ last.op = "Reset") =>
    /\ Abs(2 * selection.x + selection.width - stageWidth) <= 1
    /\ Abs(2 * selection.y + selection.height - stageHeight) <= 1
    /\ RatioWithinRounding(I(selection.width), I(selection.height), ASPECT_RATIOS[aspect])
    /\ InStage(selection)

\* C16: the selection a finished load installs, for the stage size and aspect of the
\* render that started the load, has width = min(400, stageWidth - 40), height =
\* round(width / aspectRatio), x = round((stageWidth - width) / 2) and y =
\* round((stageHeight - height) / 2); the load also resets the viewport to scale 1
\* and offset {0, 0}.
C16_Initialize ==
  last.op = "onload" =>
    LET sw == last.load.stageWidth
        sh == last.load.stageHeight
        ar == ASPECT_RATIOS[last.load.aspect]
        w  == IF 400 < sw - 40 THEN 400 ELSE sw - 40
        h  == RRound(RDiv(I(w), ar))
    IN  /\ selection.width = w
        /\ selection.height = h
        /\ selection.x = RRound(Rat(sw - w, 2))
        /\ selection.y = RRound(Rat(sh - h, 2))
        /\ imageScale = I(1)
        /\ imageOffset = [x |-> I(0), y |-> I(0)]

\* a load started at 16:9 on a 400 x 300 stage: 360 x 203 at (20, 49), scale 1
C16_Witness ==
  /\ last.op = "onload"
  /\ last.load.stageWidth = 400 /\ last.load.stageHeight = 300
  /\ last.load.aspect = "16:9"
  /\ selection = [x |-> 20, y |-> 49, width |-> 360, height |-> 203]
  /\ imageScale = I(1)

\* the proposed box is below the minimum size on some axis
TooSmall(box) ==
  RLt(RAbs(box.width), I(10)) \/ RLt(RAbs(box.height), I(10))

\* C17: a proposed box with |width| < 10 or |height| < 10 makes the resize return
\* oldBox unchanged, lock or no lock; with the lock off and both absolute dimensions
\* at least 10 it returns newBox unchanged.
C17_RejectOrAccept ==
  last.op = "Transform" =>
    /\ TooSmall(last.newBox) => last.box = last.oldBox
    /\ (~keepRatio /\ ~TooSmall(last.newBox)) => last.box = last.newBox

\* with the lock on, a proposed width of 5 is rejected and the old box comes back
C17_Witness ==
  /\ last.op = "Transform"
  /\ keepRatio
  /\ last.newBox.width = I(5)
  /\ last.oldBox # last.newBox
  /\ last.box = last.oldBox

\* C11: on every buffer, of any length and however truncated, parsePNG_DPI and
\* parseJPEG_EXIF_DPI return a result and no exception leaves them.
C11_NeverThrows == parsed.value.kind # "throw"

\* C18: on a buffer with the PNG signature whose first pHYs chunk has length >= 9
\* (and whose nine data bytes are in the buffer), parsePNG_DPI returns
\* round(pxPerUnitX * 0.0254) x round(pxPerUnitY * 0.0254) DPI when unit = 1 and both
\* values are non-zero (2835 gives 72 x 72) and "unknown" when unit # 1 or a value is
\* zero; on a buffer without the signature, or that ends before a pHYs chunk, it
\* returns no metadata.
C18_PngDpi ==
  parsed.fn = "parsePNG_DPI" =>
    LET p      == dvParams.made
        physAt == 8 + (IF p.lead THEN 25 ELSE 0)
    IN  /\ p.kind = "jpeg" => parsed.value = NoMetadata
        /\ p.kind = "png" =>
             /\ (p.phys = "none" \/ dvParams.cut < physAt + 8)
                  => parsed.value = NoMetadata
             /\ (p.phys = "full" /\ dvParams.cut >= physAt + 17)
                  => parsed.value =
                       IF p.unit = 1 /\ p.x # 0 /\ p.y # 0
                       THEN Dpi((254 * p.x + 5000) \div 10000,
                                (254 * p.y + 5000) \div 10000)
                       ELSE Unknown
             /\ (p.phys = "full" /\ dvParams.whole /\ p.unit = 1
                   /\ p.x = 2835 /\ p.y = 2835)
                  => parsed.value = Dpi(72, 72)

\* a whole PNG file, IHDR first, pHYs 3780 x 11811 per metre: 96 x 300 DPI
C18_Witness ==
  /\ parsed.fn = "parsePNG_DPI"
  /\ dvParams.made.kind = "png" /\ dvParams.made.lead /\ dvParams.whole
  /\ dvParams.made.phys = "full" /\ dvParams.made.unit = 1
  /\ dvParams.made.x = 3780 /\ dvParams.made.y = 11811
  /\ parsed.value = Dpi(96, 300)

\* the parser ran on a whole JPEG file whose two resolution rationals have non-zero
\* denominators
JpegWithResolution ==
  /\ parsed.fn = "parseJPEG_EXIF_DPI"
  /\ dvParams.made.kind = "jpeg"
  /\ dvParams.whole
  /\ dvParams.made.xDen # 0 /\ dvParams.made.yDen # 0

\* C19 as stated: on a JPEG buffer with an Exif APP1 segment whose IFD0 has XResolution
\* and YResolution with non-zero denominators, the parser returns numerator /
\* denominator per axis, multiplied by 2.54 when ResolutionUnit is 3.
C19_ValueAsIs ==
  JpegWithResolution =>
    LET p == dvParams.made
        k == IF p.unit = 3 THEN <<127, 50>> ELSE <<1, 1>>
    IN  /\ parsed.value.kind = "dpi"
        /\ I(parsed.value.x) = RMul(Rat(p.xNum, p.xDen), k)
        /\ I(parsed.value.y) = RMul(Rat(p.yNum, p.yDen), k)

\* C19: on a JPEG buffer with an Exif APP1 segment (possibly after other segments)
\* whose IFD0 has XResolution and YResolution with non-zero numerators and
\* denominators, the parser returns round(numerator / denominator) per axis when
\* ResolutionUnit is 2 or absent and round(numerator / denominator * 2.54) when it is
\* 3, for both byte orders.
C19_RoundedValue ==
  (JpegWithResolution /\ dvParams.made.xNum # 0 /\ dvParams.made.yNum # 0) =>
    LET p == dvParams.made
    IN  parsed.value =
          IF p.unit = 3
          THEN Dpi((254 * p.xNum + 50 * p.xDen) \div (100 * p.xDen),
                   (254 * p.yNum + 50 * p.yDen) \div (100 * p.yDen))
          ELSE Dpi((2 * p.xNum + p.xDen) \div (2 * p.xDen),
                   (2 * p.yNum + p.yDen) \div (2 * p.yDen))

\* little-endian Exif after an XMP segment, 3000/7 x 300/1 per centimetre: 1089 x 762
C19_Witness ==
  /\ JpegWithResolution
  /\ dvParams.made.little /\ dvParams.made.lead = "xmp" /\ dvParams.made.unit = 3
  /\ dvParams.made.xNum = 3000 /\ dvParams.made.xDen = 7
  /\ parsed.value = Dpi(1089, 762)

\* C12: when the metadata of every chosen file has arrived, the resolution shown
\* is that of the file chosen last ("unknown" if reading it failed)
C12_LatestFileWins ==
  (lastFile # NoImg /\ parses = {})
    => dpiInfo \in {extractDpi(FileBytes[lastFile]), Unknown}

\* C13: the metadata and the raster size an export uploads are those of the state
\* exportCropped was invoked in, whatever was panned, zoomed, moved, resized or
\* loaded before the toBlob callback ran.
C13_UploadsSnapshot ==
  last.op = "toBlob" =>
    LET at       == last.upload.at
        natW     == I(naturalWidth[at.imgElement])
        natH     == I(naturalHeight[at.imgElement])
        dispW    == RMul(I(at.stageDimensions.width), at.imageScale)
        dispH    == RDiv(RMul(natH, dispW), natW)
        imgX     == RAdd(RDiv(RSub(I(at.stageDimensions.width), dispW), I(2)),
                         at.imageOffset.x)
        imgY     == RAdd(RDiv(RSub(I(at.stageDimensions.height), dispH), I(2)),
                         at.imageOffset.y)
        scaleNat == RDiv(natW, dispW)
    IN  /\ uploaded.made
        /\ uploaded.canvasWidth = at.selection.width
        /\ uploaded.canvasHeight = at.selection.height
        /\ uploaded.originalWidth = naturalWidth[at.imgElement]
        /\ uploaded.originalHeight = naturalHeight[at.imgElement]
        /\ uploaded.cropX = RRound(RMul(RSub(I(at.selection.x), imgX), scaleNat))
        /\ uploaded.cropY = RRound(RMul(RSub(I(at.selection.y), imgY), scaleNat))
        /\ uploaded.cropWidth = RRound(RMul(I(at.selection.width), scaleNat))
        /\ uploaded.cropHeight = RRound(RMul(I(at.selection.height), scaleNat))

\* the callback ran after the selection and the viewport had changed, and what it
\* uploaded differs from what the state of that moment would give
C13_Witness ==
  /\ last.op = "toBlob"
  /\ selection # last.upload.at.selection
  /\ imageScale # last.upload.at.imageScale
  /\ uploaded # cropOf(selection)

\* C20: the handler of POST /api/upload sends nothing before it returns and exactly
\* one response when it returns: 200 {success: true, id, filename, url} only with the
\* object stored and the row inserted, else 400 {error} for a request without image
\* (nothing written) or 500 {error} after an exception; never success with a failed
\* write.
C20_OneResponse ==
  (request.kind = "POST" /\ request.path = "/api/upload") =>
  /\ response.sent = (IF pc = "done" THEN 1 ELSE 0)
  /\ pc = "done" =>
       \/ /\ response.status = 200
          /\ response.body = [success |-> TRUE, id |-> request.id,
                               filename |-> <<request.id, ".png">>,
                               url |-> <<"/api/images/", request.id>>]
          /\ request.id \in Ids
          /\ stored /\ inserted
       \/ /\ response.status = 400
          /\ response.body = [error |-> "No image provided"]
          /\ request.image \in {"missing", "empty"}
          /\ ~stored /\ ~inserted
       \/ /\ response.status = 500
          /\ response.body = [error |-> "Upload failed"]
          /\ ~inserted
  /\ (pc = "done" /\ request.body = "multipart" /\ request.image = "file"
        /\ request.metadata = "json" /\ stored /\ inserted)
       => response.status = 200

\* an upload went through: both writes succeeded and the answer is the success body
C20_Witness ==
  /\ request.kind = "POST" /\ request.path = "/api/upload"
  /\ pc = "done"
  /\ stored /\ inserted
  /\ response.status = 200
  /\ response.body.success

\* C21: in every reachable state with an image loaded, the stored offset is a fixed
\* point of clampOffset under the current scale and stage dimensions.
C21_OffsetClamped ==
  imgElement # NoImg => clampOffset(imageOffset) = imageOffset

\* C22: at the end of a resize with scale factors (scaleX, scaleY) the selection has
\* width = round(width before * scaleX) and height = round(height before * scaleY),
\* and the node has scale 1 and the selection's size, so the next resize starts from
\* scale 1.
C22_ScaleApplied ==
  last.op = "TransformEnd" =>
    /\ selection.width = RRound(RMul(I(last.before.width), last.scaleX))
    /\ selection.height = RRound(RMul(I(last.before.height), last.scaleY))
    /\ rectNode.scaleX = I(1)
    /\ rectNode.scaleY = I(1)
    /\ rectNode.width = selection.width
    /\ rectNode.height = selection.height

\* a resize that changed both dimensions has ended
C22_Witness ==
  /\ last.op = "TransformEnd"
  /\ last.scaleX # I(1) /\ last.scaleY # I(1)
  /\ selection.width # last.before.width
  /\ selection.height # last.before.height
  /\ rectNode.scaleX = I(1) /\ rectNode.scaleY = I(1)

\* C23: the selection stored at the end of a resize, when no wider and no taller
\* than the stage, lies in the stage.
C23_ResizeEndClamped ==
  (/\ last.op = "TransformEnd"
   /\ selection.width <= stageWidth
   /\ selection.height <= stageHeight) => InStage(selection)

\* C24: a step that ends a drag of the selection leaves the selection's width and
\* height, the viewport scale and the viewport offset as they were.
C24_DragKeepsSize ==
  [][last'.op = "DragEnd" =>
       /\ selection'.width = selection.width
       /\ selection'.height = selection.height
       /\ imageScale' = imageScale
       /\ imageOffset' = imageOffset]_vars

\* a drag ended beyond the far edges of the stage while the view was zoomed: the
\* rectangle was moved back and kept its size
C24_Witness ==
  /\ last.op = "DragEnd"
  /\ last.x = 790 /\ last.y = 590
  /\ selection.x = stageWidth - selection.width
  /\ selection.y = stageHeight - selection.height
  /\ selection.width = last.before.width
  /\ selection.height = last.before.height
  /\ imageScale # I(1)

\* C25: the resolution reported for a buffer is the PNG parser's result when that is
\* a resolution or "unknown"; else the JPEG parser's result when that is a resolution;
\* else, and whenever a parser throws, "unknown".  On the generated files: the
\* resolution of a whole PNG or JPEG file that carries one, "unknown" for a pHYs chunk
\* with unit 0.
C25_PngThenJpeg ==
  parsed.fn = "extractDpi" =>
    LET png  == parsePNG_DPI(dv)
        jpeg == parseJPEG_EXIF_DPI(dv)
        p    == dvParams.made
    IN  /\ parsed.value.kind \in {"dpi", "unknown"}
        /\ png.kind \in {"dpi", "unknown"} => parsed.value = png
        /\ (png = NoMetadata /\ jpeg.kind = "dpi") => parsed.value = jpeg
        /\ (png = NoMetadata /\ jpeg = NoMetadata) => parsed.value = Unknown
        /\ (png = Thrown \/ (png = NoMetadata /\ jpeg = Thrown))
             => parsed.value = Unknown
        /\ (dvParams.whole /\ p.kind = "png" /\ p.phys = "full" /\ p.unit = 0)
             => parsed.value = Unknown
        /\ (dvParams.whole /\ p.kind = "png" /\ p.phys = "full" /\ p.unit = 1
              /\ p.x = 2835 /\ p.y = 2835) => parsed.value = Dpi(72, 72)
        /\ (dvParams.whole /\ p.kind = "jpeg" /\ p.unit = 2 /\ p.xNum = 72
              /\ p.xDen = 1) => parsed.value = Dpi(72, 96)
        /\ (dvParams.whole /\ p.kind = "png" /\ p.phys = "none")
             => parsed.value = Unknown

\* a PNG file cut inside its pHYs chunk: the PNG parser threw and the result is
\* "unknown"
C25_Witness ==
  /\ parsed.fn = "extractDpi"
  /\ dvParams.made.kind = "png"
  /\ parsePNG_DPI(dv) = Thrown
  /\ parsed.value = Unknown

\* C26: a step that completes a decode installs the image and resets viewport and
\* selection, and leaves the resolution and the pending reads alone, whatever the
\* state of the file's metadata; a step that completes or fails a read changes the
\* resolution only (to "unknown" on failure) and leaves image, pending decodes,
\* viewport, selection and stage alone.
C26_DecodeNotGated ==
  [][/\ last'.op = "onload" =>
          /\ imgElement' = last'.load.file
          /\ imageScale' = I(1)
          /\ imageOffset' = [x |-> I(0), y |-> I(0)]
          /\ selection'.width = Min(400, last'.load.stageWidth - 40)
          /\ selection'.x = RRound(Rat(last'.load.stageWidth - selection'.width, 2))
          /\ dpiInfo' = dpiInfo
          /\ parses' = parses
     /\ last'.op \in {"arrayBufferThen", "arrayBufferCatch"} =>
          /\ imgElement' = imgElement
          /\ lastFile' = lastFile
          /\ loading' = loading
          /\ imageScale' = imageScale
          /\ imageOffset' = imageOffset
          /\ selection' = selection
          /\ rectNode' = rectNode
          /\ stageDimensions' = stageDimensions
          /\ keepRatio' = keepRatio
          /\ aspect' = aspect
     /\ last'.op = "arrayBufferCatch" => dpiInfo' = Unknown]_vars

\* a decode completed while the read of the same file was still pending
C26_Witness ==
  /\ last.op = "onload"
  /\ last.load.file \in parses
  /\ imgElement = last.load.file
  /\ imageScale = I(1)
  /\ selection.width = Min(400, last.load.stageWidth - 40)

\* C27: a call of exportCropped without an image or without a 2D context changes
\* nothing: no request, no message, the same viewport, selection, image and pending
\* work; and a request that fails is not issued again and ends in one message that
\* says so.
C27_NoOpAndNoRetry ==
  [][/\ (last'.op = "exportCropped" /\ ~last'.drawn) =>
          /\ fetches' = fetches /\ inflight' = inflight
          /\ alerts' = alerts /\ message' = message
          /\ uploads' = uploads /\ uploaded' = uploaded /\ exported' = exported
          /\ selection' = selection /\ rectNode' = rectNode
          /\ imageScale' = imageScale /\ imageOffset' = imageOffset
          /\ imgElement' = imgElement /\ lastFile' = lastFile
          /\ loading' = loading /\ parses' = parses /\ dpiInfo' = dpiInfo
          /\ stageDimensions' = stageDimensions
          /\ keepRatio' = keepRatio /\ aspect' = aspect
     /\ (last'.op = "exportCropped" /\ imgElement = NoImg) => ~last'.drawn
     /\ (last'.op = "fetchSettled" /\ last'.outcome # "success") =>
          /\ fetches' = fetches
          /\ inflight' = inflight - 1
          /\ alerts' = alerts + 1
          /\ message'.kind = "failed"
          /\ uploads' = uploads]_vars

\* an upload was posted once and failed: one request, one message, nothing pending
C27_Witness ==
  /\ last.op = "fetchSettled"
  /\ last.outcome = "rejected"
  /\ fetches = 1 /\ inflight = 0 /\ alerts = 1
  /\ uploads = {}
  /\ message.kind = "failed"

\* C28: every pass of the chunk loop of parsePNG_DPI that does not leave the loop
\* moves the offset up, and every such pass of the marker loop of parseJPEG_EXIF_DPI
\* moves the position up, for every length field (0, 1, 2^32 - 12 and 2^32 - 1
\* included); neither loop makes more passes than the buffer has bytes; and each
\* parser, once called, returns or throws.  Where the lengths are small, the outcome
\* is that of the parser taken as a whole.
C28_LoopsAdvance ==
  /\ [][/\ (parsed.fn = "parsePNG_DPI" /\ ~parsed'.done) =>
             WLt(parsed.offset, parsed'.offset)
        /\ (parsed.fn = "parseJPEG_EXIF_DPI" /\ ~parsed'.done) =>
             parsed.pos < parsed'.pos]_vars
  /\ [](parsed.passes <= Len(dv))
  /\ []((parsed.done /\ parsed.fn = "parseJPEG_EXIF_DPI") =>
          parsed.value = parseJPEG_EXIF_DPI(dv))
  /\ []((parsed.done /\ parsed.fn = "parsePNG_DPI" /\ ~dvParams.made.big) =>
          parsed.value = parsePNG_DPI(dv))
  /\ <>parsed.done

\* the chunk loop passed a chunk whose length field is 2^32 - 1 and left at the
\* next test of its condition, after three passes
C28_Witness ==
  /\ parsed.fn = "parsePNG_DPI"
  /\ parsed.done
  /\ parsed.passes = 3
  /\ SubSeq(dv, 33, 36) = <<255, 255, 255, 255>>
  /\ parsed.offset = <<256, 43>>

\* C29: once an upload request has been answered, an object this request wrote to
\* the image store has its row in the images table, written with the same id and
\* filename; a request answered with an error leaves no object without a row.
C29_NoOrphanObject ==
  (pc = "done" /\ stored) => inserted

\* C30: once no decode is pending, the displayed image is that of the file chosen
\* last (the one the info panel shows), and the last reset of the viewport and of
\* the selection by a completed decode was made for that file.
C30_ShowsLatestFile ==
  (lastFile # NoImg /\ loading = {}) =>
    /\ imgElement = lastFile
    /\ last.op = "onload" => last.load.file = lastFile

=============================================================================
